---- MODULE Spec2Model ----
(***************************************************************************)
(* A model of the NIP-19 codec of nostr (crates/nostr/src/nips/nip19.rs):  *)
(* the bech32 text form of bare identifiers (nsec, npub, note) and of the  *)
(* TLV composite identifiers (nprofile, nevent, naddr).                    *)
(*                                                                         *)
(* Bytes are integers 0..255 and byte strings are sequences of them.  A    *)
(* Rust String is the sequence of its UTF-8 bytes.  A bech32 text is the   *)
(* sequence of its characters.  Option<T> is a sequence of length 0 or 1.  *)
(* A Kind is its u64 number written as 8 big-endian bytes.                 *)
(*                                                                         *)
(* The module also models the tag index (crates/nostr/src/event/tag/       *)
(* indexes.rs) and the Event object of the bindings (bindings/nostr-ffi/   *)
(* src/event/mod.rs).  A u64 of SipHash is four 16-bit limbs; a timestamp  *)
(* and the kind of an Event are natural numbers.                           *)
(***************************************************************************)
EXTENDS Integers, Sequences, FiniteSets, TLC

VARIABLES
    pc,      \* position of the caller: "start", "encoded", "decoded", "build", "loop", "done", "built", "mutated", "queried", "held"
    form,    \* the form of the value encoded / the TLV decoder applied
    value,   \* the value handed to to_bech32
    text,    \* the bech32 text in flight
    data,    \* the TLV byte buffer handed to from_bech32_data
    edits,   \* number of records added to the buffer by the caller
    req,     \* the type whose from_bech32 is called
    result,  \* what the decoder returned
    tags,    \* the tag sequence a TagIndexes was built from
    index,   \* the TagIndexes: a map from Alphabet letters to sets of digests
    query,   \* the set of GenericTagValue handed to TagIndexValues::iter
    digests, \* what TagIndexValues::iter yielded
    event,   \* the Event the binding holds
    now,     \* the clock, in seconds
    returned,\* what each method of the Event returned when last called
    locals,  \* the locals of a from_bech32_data whose loop is running
    iters,   \* the iterations its loop has completed
    json,    \* the JsonValue handed to Value::try_from
    converted, \* what Value::try_from returned
    fields,  \* the strings last handed to Tag::parse or returned by as_vec
    tagenum, \* the value last handed to from_enum or to a conversion
    made,    \* what the last constructor of a Tag returned
    prev,    \* what the constructor before it returned
    shown    \* what the last as_enum, kind or conversion returned

codecVars == <<form, value, text, data, edits, req, result>>

indexVars == <<tags, index, query, digests>>

eventVars == <<event, now, returned>>

loopVars == <<locals, iters>>

jsonVars == <<json, converted>>

tagVars == <<fields, tagenum, made, prev, shown>>

otherVars == <<loopVars, jsonVars, tagVars>>

vars == <<pc, codecVars, indexVars, eventVars, otherVars>>

----------------------------------------------------------------------------
(* Results and options *)

Ok(v) == [ok |-> TRUE, val |-> v]

Err(e) == [ok |-> FALSE, err |-> e]

None == <<>>

Some(x) == <<x>>

NoValue == <<>>

----------------------------------------------------------------------------
(* bech32 (crate bitcoin::bech32), as nip19.rs calls it *)

Charset ==
    << "q","p","z","r","y","9","x","8","g","f","2","t","v","d","w","0",
       "s","3","j","n","5","4","k","h","c","e","6","m","u","a","7","l" >>

CharsetSet == {Charset[i] : i \in 1..32}

CharVal == [c \in CharsetSet |-> (CHOOSE i \in 1..32 : Charset[i] = c) - 1]

Letters ==
    << "a","b","c","d","e","f","g","h","i","j","k","l","m",
       "n","o","p","q","r","s","t","u","v","w","x","y","z" >>

LetterSet == {Letters[i] : i \in 1..26}

\* ASCII code of a lowercase letter
Ord == [c \in LetterSet |-> 96 + (CHOOSE i \in 1..26 : Letters[i] = c)]

Pow2 == [i \in 0..16 |-> 2^i]

Xor5 ==
    [a \in 0..31 |-> [b \in 0..31 |->
        LET bit(i) == (((a \div Pow2[i]) % 2) + ((b \div Pow2[i]) % 2)) % 2
        IN  bit(0) + 2 * bit(1) + 4 * bit(2) + 8 * bit(3) + 16 * bit(4)]]

XorVec(x, y) ==
    << Xor5[x[1]][y[1]], Xor5[x[2]][y[2]], Xor5[x[3]][y[3]],
       Xor5[x[4]][y[4]], Xor5[x[5]][y[5]], Xor5[x[6]][y[6]] >>

\* the generator constants of the bech32 checksum, as six 5-bit groups each
Gen ==
    << <<29, 22, 20, 21, 29, 18>>,
       <<19, 5, 1, 3, 19, 13>>,
       <<15, 10, 2, 6, 15, 26>>,
       <<30, 20, 4, 12, 30, 29>>,
       <<21, 1, 8, 24, 21, 19>> >>

ZeroVec == <<0, 0, 0, 0, 0, 0>>

\* the XOR of the generators selected by the bits of b
GenComb ==
    [b \in 0..31 |->
        LET pick(i, acc) == IF (b \div Pow2[i - 1]) % 2 = 1 THEN XorVec(acc, Gen[i]) ELSE acc
        IN  pick(5, pick(4, pick(3, pick(2, pick(1, ZeroVec)))))]

\* checksum constants of the two variants
VariantConst(v) ==
    IF v = "Bech32" THEN <<0, 0, 0, 0, 0, 1>> ELSE <<21, 28, 16, 12, 5, 3>>

PolymodStep(chk, x) ==
    XorVec(<<chk[2], chk[3], chk[4], chk[5], chk[6], x>>, GenComb[chk[1]])

\* the checksum register after v[lo..hi], starting from chk; the range is
\* halved so that the evaluation depth stays logarithmic in its length
RECURSIVE PolymodRange(_, _, _, _)
PolymodRange(v, lo, hi, chk) ==
    IF lo > hi THEN chk
    ELSE IF lo = hi THEN PolymodStep(chk, v[lo])
    ELSE LET mid  == (lo + hi) \div 2
             left == PolymodRange(v, lo, mid, chk)
         IN  IF left[1] >= 0 THEN PolymodRange(v, mid + 1, hi, left) ELSE left

Polymod(v) == PolymodRange(v, 1, Len(v), <<0, 0, 0, 0, 0, 1>>)

HrpExpand(hrp) ==
    [i \in 1..Len(hrp) |-> Ord[hrp[i]] \div 32] \o <<0>> \o
    [i \in 1..Len(hrp) |-> Ord[hrp[i]] % 32]

\* bytes -> 5-bit groups, zero-padded at the end (ToBase32 for [u8])
ToBase32(bytes) ==
    LET n == Len(bytes)
        at(k) == IF k <= n THEN bytes[k] ELSE 0
    IN  [j \in 1..((8 * n + 4) \div 5) |->
            LET bit == 5 * (j - 1)
                k   == (bit \div 8) + 1
                off == bit % 8
            IN  ((at(k) * 256 + at(k + 1)) \div Pow2[11 - off]) % 32]

\* 5-bit groups -> bytes; fails on 5 or more left-over bits or non-zero padding
FromBase32(groups) ==
    LET n    == Len(groups)
        m    == (5 * n) \div 8
        left == (5 * n) % 8
        at(j) == IF j <= n THEN groups[j] ELSE 0
        byte(k) ==
            LET bit == 8 * (k - 1)
                j   == (bit \div 5) + 1
                off == bit % 5
            IN  ((at(j) * 1024 + at(j + 1) * 32 + at(j + 2)) \div Pow2[7 - off]) % 256
    IN  IF left >= 5 \/ (left > 0 /\ groups[n] % Pow2[left] # 0)
        THEN Err("Bech32")
        ELSE Ok([k \in 1..m |-> byte(k)])

\* bech32::encode(hrp, data, variant)
Bech32Encode(hrp, groups, variant) ==
    LET pm  == Polymod(HrpExpand(hrp) \o groups \o ZeroVec)
        chk == XorVec(pm, VariantConst(variant))
        all == groups \o chk
    IN  hrp \o <<"1">> \o [j \in 1..Len(all) |-> Charset[all[j] + 1]]

\* bech32::decode(s) -> (hrp, data, variant)
Bech32Decode(s) ==
    LET ones == {i \in 1..Len(s) : s[i] = "1"}
    IN  IF ones = {} THEN Err("Bech32")
        ELSE
          LET sep  == CHOOSE i \in ones : \A j \in ones : j <= i
              hrp  == SubSeq(s, 1, sep - 1)
              body == SubSeq(s, sep + 1, Len(s))
          IN  IF \/ Len(hrp) = 0
                 \/ Len(body) < 6
                 \/ \E i \in 1..Len(hrp) : hrp[i] \notin LetterSet
                 \/ \E i \in 1..Len(body) : body[i] \notin CharsetSet
              THEN Err("Bech32")
              ELSE
                LET all == [j \in 1..Len(body) |-> CharVal[body[j]]]
                    pm  == Polymod(HrpExpand(hrp) \o all)
                    dat == SubSeq(all, 1, Len(all) - 6)
                IN  IF pm = VariantConst("Bech32")
                      THEN Ok([hrp |-> hrp, data |-> dat, variant |-> "Bech32"])
                    ELSE IF pm = VariantConst("Bech32m")
                      THEN Ok([hrp |-> hrp, data |-> dat, variant |-> "Bech32m"])
                    ELSE Err("Bech32")

----------------------------------------------------------------------------
(* Identifier types used by the codec *)

KeyLen == 32

IsCont(b) == b >= 128 /\ b <= 191

\* number of bytes of the UTF-8 sequence a lead byte starts; 0 when it starts none
LeadLen(b) ==
    IF b <= 127 THEN 1
    ELSE IF b >= 194 /\ b <= 223 THEN 2
    ELSE IF b >= 224 /\ b <= 239 THEN 3
    ELSE IF b >= 240 /\ b <= 244 THEN 4
    ELSE 0

\* the range UTF-8 allows for the byte that follows lead byte b
SecondOk(b, c) ==
    IF b = 224 THEN c >= 160 /\ c <= 191
    ELSE IF b = 237 THEN c >= 128 /\ c <= 159
    ELSE IF b = 240 THEN c >= 144 /\ c <= 191
    ELSE IF b = 244 THEN c >= 128 /\ c <= 143
    ELSE IsCont(c)

\* String::from_utf8 accepts exactly the well-formed UTF-8 byte strings
ValidUtf8(bytes) ==
    LET n == Len(bytes)
    IN  /\ n > 0 => ~IsCont(bytes[1])
        /\ \A i \in 1..n :
              \/ IsCont(bytes[i])
              \/ LET L == LeadLen(bytes[i])
                 IN  /\ L > 0
                     /\ i + L - 1 <= n
                     /\ \A k \in 1..(L - 1) : IsCont(bytes[i + k])
                     /\ L > 1 => SecondOk(bytes[i], bytes[i + 1])
                     /\ i + L <= n => ~IsCont(bytes[i + L])

\* String::from_utf8_lossy: ill-formed bytes become U+FFFD
StringFromUtf8Lossy(bytes) ==
    IF ValidUtf8(bytes) THEN Ok(bytes) ELSE Ok(<<239, 191, 189>>)

StringFromUtf8(bytes) == IF ValidUtf8(bytes) THEN Ok(bytes) ELSE Err("UTF8")

\* public keys of the repository's tests
PK1 ==
    << 50, 225, 130, 118, 53, 69, 14, 187, 60, 90, 125, 18, 193, 248, 231, 178,
       181, 20, 67, 154, 193, 10, 103, 238, 243, 217, 253, 156, 92, 104, 226, 69 >>

PK2 ==
    << 170, 79, 200, 102, 95, 86, 150, 227, 61, 183, 225, 165, 114, 227, 176, 245,
       179, 214, 21, 131, 123, 15, 54, 45, 203, 28, 128, 104, 176, 152, 199, 180 >>

\* secret key of the repository's tests
SK1 ==
    << 149, 113, 165, 104, 164, 43, 158, 5, 100, 106, 52, 156, 120, 49, 89, 185,
       6, 180, 152, 17, 147, 144, 223, 154, 90, 2, 102, 113, 85, 18, 128, 40 >>

\* event id of the repository's tests
ID1 ==
    << 217, 74, 63, 77, 216, 123, 154, 59, 11, 237, 24, 59, 50, 233, 22, 250,
       41, 200, 2, 1, 7, 132, 93, 23, 82, 215, 38, 151, 254, 83, 9, 165 >>

Zero32 == [i \in 1..KeyLen |-> 0]

\* the x coordinates the model knows to lie on the curve; the curve equation
\* itself is not computed, and x = 0 (Zero32) does not lie on it
KnownPublicKeys == {PK1, PK2}

\* XOnlyPublicKey::from_slice
XOnlyPublicKeyFromSlice(bytes) ==
    IF Len(bytes) = KeyLen /\ bytes \in KnownPublicKeys THEN Ok(bytes) ELSE Err("Secp256k1")

\* the order of the secp256k1 group, big-endian
CurveOrder ==
    << 255, 255, 255, 255, 255, 255, 255, 255, 255, 255, 255, 255, 255, 255, 255, 254,
       186, 174, 220, 230, 175, 72, 160, 59, 191, 210, 94, 140, 208, 54, 65, 65 >>

LexLess(a, b) ==
    \E i \in 1..Len(a) : a[i] < b[i] /\ \A j \in 1..(i - 1) : a[j] = b[j]

\* SecretKey::from_slice: 32 bytes, a scalar in 1..order-1
SecretKeyFromSlice(bytes) ==
    IF Len(bytes) = KeyLen /\ bytes # Zero32 /\ LexLess(bytes, CurveOrder)
    THEN Ok(bytes) ELSE Err("Secp256k1")

\* EventId::from_slice: a 32-byte digest
EventIdFromSlice(bytes) ==
    IF Len(bytes) = KeyLen THEN Ok(bytes) ELSE Err("EventId")

\* Kind::as_u32 followed by to_be_bytes: the low 32 bits of the kind number
KindAsU32Bytes(kind) == SubSeq(kind, 5, 8)

\* the four bytes read least significant byte first
KindFromU32BytesLE(bytes) == <<0, 0, 0, 0, bytes[4], bytes[3], bytes[2], bytes[1]>>

\* u32::from_be_bytes(..) as u64, then Kind::from
KindFromU32Bytes(bytes) == <<0, 0, 0, 0>> \o bytes

----------------------------------------------------------------------------
(* nip19.rs *)

PREFIX_BECH32_SECRET_KEY == <<"n", "s", "e", "c">>

PREFIX_BECH32_PUBLIC_KEY == <<"n", "p", "u", "b">>

PREFIX_BECH32_NOTE_ID == <<"n", "o", "t", "e">>

PREFIX_BECH32_PROFILE == <<"n", "p", "r", "o", "f", "i", "l", "e">>

PREFIX_BECH32_EVENT == <<"n", "e", "v", "e", "n", "t">>

PREFIX_BECH32_PARAMETERIZED_REPLACEABLE_EVENT == <<"n", "a", "d", "d", "r">>

SPECIAL == 0

RELAY == 1

AUTHOR == 2

KIND == 3

\* `len() as u8`: the length of a string, truncated to one byte
LenAsU8(str) == Len(str) % 256

RECURSIVE RelayRecords(_)
RelayRecords(relays) ==
    IF relays = <<>> THEN <<>>
    ELSE <<RELAY, LenAsU8(Head(relays))>> \o Head(relays) \o RelayRecords(Tail(relays))

\* impl ToBech32 for XOnlyPublicKey
XOnlyPublicKeyToBech32(public_key) ==
    Bech32Encode(PREFIX_BECH32_PUBLIC_KEY, ToBase32(public_key), "Bech32")

\* impl ToBech32 for SecretKey
SecretKeyToBech32(secret_key) ==
    Bech32Encode(PREFIX_BECH32_SECRET_KEY, ToBase32(secret_key), "Bech32")

\* EventId::to_bech32 written with the prefix of another impl
EventIdToBech32WrongPrefix(event_id) ==
    Bech32Encode(PREFIX_BECH32_PUBLIC_KEY, ToBase32(event_id), "Bech32")

\* impl ToBech32 for EventId
EventIdToBech32(event_id) ==
    Bech32Encode(PREFIX_BECH32_NOTE_ID, ToBase32(event_id), "Bech32")

\* the byte buffer Nip19Event::to_bech32 builds
Nip19EventBytes(e) ==
    <<SPECIAL, 32>> \o e.event_id \o RelayRecords(e.relays)

Nip19EventToBech32(e) ==
    Bech32Encode(PREFIX_BECH32_EVENT, ToBase32(Nip19EventBytes(e)), "Bech32")

\* the byte buffer Nip19Profile::to_bech32 builds
Nip19ProfileBytes(p) ==
    <<SPECIAL, 32>> \o p.public_key \o RelayRecords(p.relays)

Nip19ProfileToBech32(p) ==
    Bech32Encode(PREFIX_BECH32_PROFILE, ToBase32(Nip19ProfileBytes(p)), "Bech32")

\* Coordinate::to_bech32 with the identifier's length byte written as the
\* literal 32 of the other two encoders
CoordinateBytesFixedLen(c) ==
    <<SPECIAL, 32>> \o c.identifier
        \o RelayRecords(c.relays)
        \o <<AUTHOR, 32>> \o c.pubkey
        \o <<KIND, 4>> \o KindAsU32Bytes(c.kind)

\* the byte buffer Coordinate::to_bech32 builds
CoordinateBytes(c) ==
    <<SPECIAL, LenAsU8(c.identifier)>> \o c.identifier
        \o RelayRecords(c.relays)
        \o <<AUTHOR, 32>> \o c.pubkey
        \o <<KIND, 4>> \o KindAsU32Bytes(c.kind)

CoordinateToBech32(c) ==
    Bech32Encode(PREFIX_BECH32_PARAMETERIZED_REPLACEABLE_EVENT,
                 ToBase32(CoordinateBytes(c)), "Bech32")

\* the loop head with the value slice clamped to the buffer instead of checked
TlvFrameClamped(buf) ==
    IF Len(buf) < 2 THEN Err("TLV")
    ELSE LET l == IF buf[2] + 2 > Len(buf) THEN Len(buf) - 2 ELSE buf[2]
         IN  Ok([t |-> buf[1], l |-> l, bytes |-> SubSeq(buf, 3, l + 2)])

\* the head of every decoder's loop body: the type byte, the length byte and
\* the value slice data.get(2..l + 2), each fetched with a bounds check
TlvFrame(buf) ==
    IF Len(buf) < 2 THEN Err("TLV")
    ELSE LET l == buf[2]
         IN  IF l + 2 > Len(buf) THEN Err("TLV")
             ELSE Ok([t |-> buf[1], l |-> l, bytes |-> SubSeq(buf, 3, l + 2)])

\* a drain that removes the header and leaves the value in the buffer
DrainHeader(buf, l) == IF l = 0 THEN buf ELSE SubSeq(buf, 3, Len(buf))

\* data.drain(..l + 2)
Drain(buf, l) == SubSeq(buf, l + 3, Len(buf))

Fail(st, e) == [st EXCEPT !.err = e]

\* one iteration of the loop of Nip19Event::from_bech32_data
Nip19EventStep(st) ==
    LET fr == TlvFrame(st.data)
    IN  IF ~fr.ok THEN Fail(st, fr.err)
        ELSE
          LET t     == fr.val.t
              bytes == fr.val.bytes
              rest  == Drain(st.data, fr.val.l)
          IN  IF t = SPECIAL THEN
                IF st.event_id = None THEN
                  LET r == EventIdFromSlice(bytes)
                  IN  IF r.ok THEN [st EXCEPT !.event_id = Some(r.val), !.data = rest]
                      ELSE Fail(st, r.err)
                ELSE [st EXCEPT !.data = rest]
              ELSE IF t = AUTHOR THEN
                IF st.author = None THEN
                  LET r == XOnlyPublicKeyFromSlice(bytes)
                  IN  IF r.ok THEN [st EXCEPT !.author = Some(r.val), !.data = rest]
                      ELSE Fail(st, r.err)
                ELSE [st EXCEPT !.data = rest]
              ELSE IF t = KIND THEN
                IF st.kind = None THEN
                  IF Len(bytes) = 4
                  THEN [st EXCEPT !.kind = Some(KindFromU32Bytes(bytes)), !.data = rest]
                  ELSE Fail(st, "TryFromSlice")
                ELSE [st EXCEPT !.data = rest]
              ELSE IF t = RELAY THEN
                LET r == StringFromUtf8(bytes)
                IN  IF r.ok THEN [st EXCEPT !.relays = Append(@, r.val), !.data = rest]
                    ELSE Fail(st, r.err)
              ELSE [st EXCEPT !.data = rest]

\* the profile loop with each relay inserted at the front of the list
Nip19ProfileStepRelaysReversed(st) ==
    LET fr == TlvFrame(st.data)
    IN  IF ~fr.ok THEN Fail(st, fr.err)
        ELSE
          LET t     == fr.val.t
              bytes == fr.val.bytes
              rest  == Drain(st.data, fr.val.l)
          IN  IF t = SPECIAL THEN
                IF st.public_key = None THEN
                  LET r == XOnlyPublicKeyFromSlice(bytes)
                  IN  IF r.ok THEN [st EXCEPT !.public_key = Some(r.val), !.data = rest]
                      ELSE Fail(st, r.err)
                ELSE [st EXCEPT !.data = rest]
              ELSE IF t = RELAY THEN
                LET r == StringFromUtf8(bytes)
                IN  IF r.ok THEN [st EXCEPT !.relays = <<r.val>> \o @, !.data = rest]
                    ELSE Fail(st, r.err)
              ELSE [st EXCEPT !.data = rest]

\* the profile loop with the author arm of the event loop: the key is parsed
\* and dropped
Nip19ProfileStepReadsAuthor(st) ==
    LET fr == TlvFrame(st.data)
    IN  IF ~fr.ok THEN Fail(st, fr.err)
        ELSE
          LET t     == fr.val.t
              bytes == fr.val.bytes
              rest  == Drain(st.data, fr.val.l)
          IN  IF t = SPECIAL THEN
                IF st.public_key = None THEN
                  LET r == XOnlyPublicKeyFromSlice(bytes)
                  IN  IF r.ok THEN [st EXCEPT !.public_key = Some(r.val), !.data = rest]
                      ELSE Fail(st, r.err)
                ELSE [st EXCEPT !.data = rest]
              ELSE IF t = RELAY THEN
                LET r == StringFromUtf8(bytes)
                IN  IF r.ok THEN [st EXCEPT !.relays = Append(@, r.val), !.data = rest]
                    ELSE Fail(st, r.err)
              ELSE IF t = AUTHOR THEN
                LET r == XOnlyPublicKeyFromSlice(bytes)
                IN  IF r.ok THEN [st EXCEPT !.data = rest] ELSE Fail(st, r.err)
              ELSE [st EXCEPT !.data = rest]

\* one iteration of the loop of Nip19Profile::from_bech32_data
Nip19ProfileStep(st) ==
    LET fr == TlvFrame(st.data)
    IN  IF ~fr.ok THEN Fail(st, fr.err)
        ELSE
          LET t     == fr.val.t
              bytes == fr.val.bytes
              rest  == Drain(st.data, fr.val.l)
          IN  IF t = SPECIAL THEN
                IF st.public_key = None THEN
                  LET r == XOnlyPublicKeyFromSlice(bytes)
                  IN  IF r.ok THEN [st EXCEPT !.public_key = Some(r.val), !.data = rest]
                      ELSE Fail(st, r.err)
                ELSE [st EXCEPT !.data = rest]
              ELSE IF t = RELAY THEN
                LET r == StringFromUtf8(bytes)
                IN  IF r.ok THEN [st EXCEPT !.relays = Append(@, r.val), !.data = rest]
                    ELSE Fail(st, r.err)
              ELSE [st EXCEPT !.data = rest]

\* the coordinate loop without the is_none() tests: the last record of a type wins
CoordinateStepLastWins(st) ==
    LET fr == TlvFrame(st.data)
    IN  IF ~fr.ok THEN Fail(st, fr.err)
        ELSE
          LET t     == fr.val.t
              bytes == fr.val.bytes
              rest  == Drain(st.data, fr.val.l)
          IN  IF t = SPECIAL THEN
                LET r == StringFromUtf8(bytes)
                IN  IF r.ok THEN [st EXCEPT !.identifier = Some(r.val), !.data = rest]
                    ELSE Fail(st, r.err)
              ELSE IF t = RELAY THEN
                LET r == StringFromUtf8(bytes)
                IN  IF r.ok THEN [st EXCEPT !.relays = Append(@, r.val), !.data = rest]
                    ELSE Fail(st, r.err)
              ELSE IF t = AUTHOR THEN
                LET r == XOnlyPublicKeyFromSlice(bytes)
                IN  IF r.ok THEN [st EXCEPT !.pubkey = Some(r.val), !.data = rest]
                    ELSE Fail(st, r.err)
              ELSE IF t = KIND THEN
                IF Len(bytes) = 4
                THEN [st EXCEPT !.kind = Some(KindFromU32Bytes(bytes)), !.data = rest]
                ELSE Fail(st, "TryFromSlice")
              ELSE [st EXCEPT !.data = rest]

\* one iteration of the loop of Coordinate::from_bech32_data
CoordinateStep(st) ==
    LET fr == TlvFrame(st.data)
    IN  IF ~fr.ok THEN Fail(st, fr.err)
        ELSE
          LET t     == fr.val.t
              bytes == fr.val.bytes
              rest  == Drain(st.data, fr.val.l)
          IN  IF t = SPECIAL THEN
                IF st.identifier = None THEN
                  LET r == StringFromUtf8(bytes)
                  IN  IF r.ok THEN [st EXCEPT !.identifier = Some(r.val), !.data = rest]
                      ELSE Fail(st, r.err)
                ELSE [st EXCEPT !.data = rest]
              ELSE IF t = RELAY THEN
                LET r == StringFromUtf8(bytes)
                IN  IF r.ok THEN [st EXCEPT !.relays = Append(@, r.val), !.data = rest]
                    ELSE Fail(st, r.err)
              ELSE IF t = AUTHOR THEN
                IF st.pubkey = None THEN
                  LET r == XOnlyPublicKeyFromSlice(bytes)
                  IN  IF r.ok THEN [st EXCEPT !.pubkey = Some(r.val), !.data = rest]
                      ELSE Fail(st, r.err)
                ELSE [st EXCEPT !.data = rest]
              ELSE IF t = KIND THEN
                IF st.kind = None THEN
                  IF Len(bytes) = 4
                  THEN [st EXCEPT !.kind = Some(KindFromU32Bytes(bytes)), !.data = rest]
                  ELSE Fail(st, "TryFromSlice")
                ELSE [st EXCEPT !.data = rest]
              ELSE [st EXCEPT !.data = rest]

TlvForms == {"nprofile", "nevent", "naddr"}

\* the locals of a decoder before its loop
TlvStart(f, buf) ==
    IF f = "nprofile" THEN [data |-> buf, public_key |-> None, relays |-> <<>>, err |-> ""]
    ELSE IF f = "nevent"
      THEN [data |-> buf, event_id |-> None, author |-> None, kind |-> None,
            relays |-> <<>>, err |-> ""]
    ELSE [data |-> buf, identifier |-> None, pubkey |-> None, kind |-> None,
          relays |-> <<>>, err |-> ""]

TlvStep(f, st) ==
    IF f = "nprofile" THEN Nip19ProfileStep(st)
    ELSE IF f = "nevent" THEN Nip19EventStep(st)
    ELSE CoordinateStep(st)

\* while !data.is_empty() { ... }, left early by `?` and `return Err`
RECURSIVE TlvLoop(_, _)
TlvLoop(f, st) ==
    IF st.err # "" \/ st.data = <<>> THEN st ELSE TlvLoop(f, TlvStep(f, st))

\* the struct built after the loop; a missing mandatory field fails it
Nip19EventFinish(st) ==
    IF st.event_id = None THEN Err("FieldMissing(event id)")
    ELSE Ok([event_id |-> st.event_id[1], author |-> st.author, kind |-> st.kind,
             relays |-> st.relays])

Nip19ProfileFinish(st) ==
    IF st.public_key = None THEN Err("FieldMissing(pubkey)")
    ELSE Ok([public_key |-> st.public_key[1], relays |-> st.relays])

\* the coordinate built with an absent identifier read as the empty string
CoordinateFinishDefaultIdentifier(st) ==
    IF st.kind = None THEN Err("FieldMissing(kind)")
    ELSE IF st.pubkey = None THEN Err("FieldMissing(pubkey)")
    ELSE Ok([kind |-> st.kind[1], pubkey |-> st.pubkey[1],
             identifier |-> IF st.identifier = None THEN <<>> ELSE st.identifier[1],
             relays |-> st.relays])

CoordinateFinish(st) ==
    IF st.kind = None THEN Err("FieldMissing(kind)")
    ELSE IF st.pubkey = None THEN Err("FieldMissing(pubkey)")
    ELSE IF st.identifier = None THEN Err("FieldMissing(identifier)")
    ELSE Ok([kind |-> st.kind[1], pubkey |-> st.pubkey[1],
             identifier |-> st.identifier[1], relays |-> st.relays])

TlvFinish(f, st) ==
    IF f = "nprofile" THEN Nip19ProfileFinish(st)
    ELSE IF f = "nevent" THEN Nip19EventFinish(st)
    ELSE CoordinateFinish(st)

\* Nip19Event / Nip19Profile / Coordinate ::from_bech32_data
FromBech32Data(f, buf) ==
    LET st == TlvLoop(f, TlvStart(f, buf))
    IN  IF st.err # "" THEN Err(st.err) ELSE TlvFinish(f, st)

BareForms == {"nsec", "npub", "note"}

Forms == BareForms \cup TlvForms

Prefix(f) ==
    CASE f = "nsec" -> PREFIX_BECH32_SECRET_KEY
      [] f = "npub" -> PREFIX_BECH32_PUBLIC_KEY
      [] f = "note" -> PREFIX_BECH32_NOTE_ID
      [] f = "nprofile" -> PREFIX_BECH32_PROFILE
      [] f = "nevent" -> PREFIX_BECH32_EVENT
      [] f = "naddr" -> PREFIX_BECH32_PARAMETERIZED_REPLACEABLE_EVENT

\* what each typed FromBech32 impl does with the payload once the prefix and
\* the variant are accepted
FromPayload(f, bytes) ==
    CASE f = "nsec" -> SecretKeyFromSlice(bytes)
      [] f = "npub" -> XOnlyPublicKeyFromSlice(bytes)
      [] f = "note" -> EventIdFromSlice(bytes)
      [] OTHER -> FromBech32Data(f, bytes)

\* the test without its variant half
PrefixOnlyOk(f, hrp, variant) == hrp = Prefix(f)

\* the prefix and variant test of the typed decoders
PrefixAndVariantOk(f, hrp, variant) == hrp = Prefix(f) /\ variant = "Bech32"

\* impl FromBech32 for SecretKey, XOnlyPublicKey, EventId, Nip19Event,
\* Nip19Profile, Coordinate: f names the type whose from_bech32 is called
FromBech32(f, s) ==
    LET d == Bech32Decode(s)
    IN  IF ~d.ok THEN Err("Bech32")
        ELSE IF ~PrefixAndVariantOk(f, d.val.hrp, d.val.variant)
          THEN Err("WrongPrefixOrVariant")
        ELSE LET b == FromBase32(d.val.data)
             IN  IF ~b.ok THEN Err("Bech32") ELSE FromPayload(f, b.val)

\* the bytes each ToBech32 impl hands to to_base32
PayloadBytes(f, v) ==
    CASE f = "nprofile" -> Nip19ProfileBytes(v)
      [] f = "nevent" -> Nip19EventBytes(v)
      [] f = "naddr" -> CoordinateBytes(v)
      [] OTHER -> v

ToBech32(f, v) ==
    CASE f = "nsec" -> SecretKeyToBech32(v)
      [] f = "npub" -> XOnlyPublicKeyToBech32(v)
      [] f = "note" -> EventIdToBech32(v)
      [] f = "nprofile" -> Nip19ProfileToBech32(v)
      [] f = "nevent" -> Nip19EventToBech32(v)
      [] f = "naddr" -> CoordinateToBech32(v)

\* the variants of enum Nip19, under the form whose prefix selects each
Nip19Variant(f) ==
    CASE f = "nsec" -> "Secret"
      [] f = "npub" -> "Pubkey"
      [] f = "note" -> "EventId"
      [] f = "nprofile" -> "Profile"
      [] f = "nevent" -> "Event"
      [] f = "naddr" -> "Coordinate"

Nip19(f, x) == [variant |-> Nip19Variant(f), inner |-> x]

\* impl TryFrom<&str> for Nip19Prefix: the form a prefix names
Nip19PrefixTryFrom(hrp) ==
    IF \E f \in Forms : hrp = Prefix(f)
    THEN Ok(CHOOSE f \in Forms : hrp = Prefix(f))
    ELSE Err("WrongPrefixOrVariant")

\* Nip19::from_bech32 without its test of the checksum variant
Nip19FromBech32AnyVariant(s) ==
    LET d == Bech32Decode(s)
    IN  IF ~d.ok THEN Err("Bech32")
        ELSE LET prefix == Nip19PrefixTryFrom(d.val.hrp)
             IN  IF ~prefix.ok THEN Err(prefix.err)
                 ELSE LET b == FromBase32(d.val.data)
                      IN  IF ~b.ok THEN Err("Bech32")
                          ELSE LET r == FromPayload(prefix.val, b.val)
                               IN  IF r.ok THEN Ok(Nip19(prefix.val, r.val)) ELSE r

\* impl FromBech32 for Nip19
Nip19FromBech32(s) ==
    LET d == Bech32Decode(s)
    IN  IF ~d.ok THEN Err("Bech32")
        ELSE LET prefix == Nip19PrefixTryFrom(d.val.hrp)
             IN  IF ~prefix.ok THEN Err(prefix.err)
                 ELSE IF d.val.variant # "Bech32" THEN Err("WrongPrefixOrVariant")
                 ELSE LET b == FromBase32(d.val.data)
                      IN  IF ~b.ok THEN Err("Bech32")
                          ELSE LET r == FromPayload(prefix.val, b.val)
                               IN  IF r.ok THEN Ok(Nip19(prefix.val, r.val)) ELSE r

\* impl ToBech32 for Nip19: each arm calls the wrapped value's to_bech32
Nip19ToBech32(n) ==
    CASE n.variant = "Secret" -> SecretKeyToBech32(n.inner)
      [] n.variant = "Pubkey" -> XOnlyPublicKeyToBech32(n.inner)
      [] n.variant = "Event" -> Nip19EventToBech32(n.inner)
      [] n.variant = "Profile" -> Nip19ProfileToBech32(n.inner)
      [] n.variant = "EventId" -> EventIdToBech32(n.inner)
      [] n.variant = "Coordinate" -> CoordinateToBech32(n.inner)

----------------------------------------------------------------------------
(* The values the callers of the model hand to the codec *)

MaxRelays == 2

MaxEdits == 2

MaxCut == 1

U8Max == 255

\* "wss://relay.damus.io"
RelayDamus ==
    << 119, 115, 115, 58, 47, 47, 114, 101, 108, 97, 121, 46, 100, 97, 109, 117,
       115, 46, 105, 111 >>

\* a string of n letters "a"
Letters_a(n) == [i \in 1..n |-> 97]

\* a two-byte UTF-8 string
Accented == <<195, 169>>

ShortRelays == {RelayDamus, Accented}

RelayLists == UNION {[1..n -> ShortRelays] : n \in 0..MaxRelays}

\* relay lists with a relay of 255 bytes and one of 256 bytes
LongRelayLists == {<<Letters_a(U8Max)>>, <<Letters_a(U8Max + 1)>>}

Identifiers == {<<>>, <<100>>}

LongIdentifiers == {Letters_a(U8Max), Letters_a(U8Max + 1)}

\* kind 1, kind 30000 and kind 2^32 + 1, as u64 numbers
KindText == <<0, 0, 0, 0, 0, 0, 0, 1>>

Kind30000 == <<0, 0, 0, 0, 0, 0, 117, 48>>

KindBig == <<0, 0, 0, 1, 0, 0, 0, 1>>

Nip19Profile(public_key, relays) == [public_key |-> public_key, relays |-> relays]

Nip19Event(event_id, author, kind, relays) ==
    [event_id |-> event_id, author |-> author, kind |-> kind, relays |-> relays]

Coordinate(kind, pubkey, identifier, relays) ==
    [kind |-> kind, pubkey |-> pubkey, identifier |-> identifier, relays |-> relays]

Values(f) ==
    CASE f = "nsec" -> {SK1, ID1}
      [] f = "npub" -> {PK1, PK2}
      [] f = "note" -> {ID1, Zero32}
      [] f = "nprofile" ->
            {Nip19Profile(k, rs) : k \in {PK1, PK2}, rs \in RelayLists}
                \cup {Nip19Profile(PK1, rs) : rs \in LongRelayLists}
      [] f = "nevent" ->
            {Nip19Event(ID1, a, k, rs) :
                a \in {None, Some(PK1)}, k \in {None, Some(KindText)}, rs \in RelayLists}
                \cup {Nip19Event(ID1, None, None, rs) : rs \in LongRelayLists}
      [] f = "naddr" ->
            {Coordinate(k, PK1, d, rs) :
                k \in {KindText, Kind30000, KindBig}, d \in Identifiers, rs \in RelayLists}
                \cup {Coordinate(Kind30000, PK1, <<100>>, rs) : rs \in LongRelayLists}
                \cup {Coordinate(Kind30000, PK1, d, <<>>) : d \in LongIdentifiers}

\* the texts the repository's tests expect for ID1, PK2, SK1 and for the
\* profile of PK1 with the relay wss://relay.damus.io
TestNote ==
    << "n", "o", "t", "e", "1", "m", "9", "9", "r", "7", "n", "w", "c", "0", "w", "d",
       "r", "k", "z", "l", "d", "r", "q", "a", "n", "9", "6", "g", "k", "l", "g", "5",
       "u", "s", "q", "s", "p", "q", "7", "z", "9", "6", "9", "6", "j", "6", "u", "n",
       "f", "0", "l", "j", "n", "p", "x", "j", "s", "p", "q", "f", "w", "9", "9" >>

TestNpub ==
    << "n", "p", "u", "b", "1", "4", "f", "8", "u", "s", "e", "j", "l", "2", "6", "t",
       "w", "x", "0", "d", "h", "u", "x", "j", "h", "9", "c", "a", "s", "7", "k", "e",
       "a", "v", "9", "v", "r", "0", "v", "8", "n", "v", "t", "w", "t", "r", "j", "q",
       "x", "3", "v", "y", "c", "c", "7", "6", "q", "q", "h", "9", "n", "s", "y" >>

TestNsec ==
    << "n", "s", "e", "c", "1", "j", "4", "c", "6", "2", "6", "9", "y", "9", "w", "0",
       "q", "2", "e", "r", "2", "x", "j", "w", "8", "s", "v", "2", "e", "h", "y", "r",
       "t", "f", "x", "q", "3", "j", "w", "g", "d", "l", "x", "j", "6", "q", "f", "n",
       "8", "z", "4", "g", "j", "s", "q", "5", "q", "f", "v", "f", "k", "9", "9" >>

TestNprofile ==
    << "n", "p", "r", "o", "f", "i", "l", "e", "1", "q", "q", "s", "r", "9", "c", "v",
       "z", "w", "c", "6", "5", "2", "r", "4", "m", "8", "3", "d", "8", "6", "y", "k",
       "p", "l", "r", "n", "m", "9", "d", "g", "5", "g", "w", "d", "v", "z", "z", "n",
       "8", "a", "m", "e", "a", "n", "l", "v", "u", "t", "3", "5", "w", "y", "3", "g",
       "p", "z", "3", "m", "h", "x", "u", "e", "6", "9", "u", "h", "h", "y", "e", "t",
       "v", "v", "9", "u", "j", "u", "e", "r", "p", "d", "4", "6", "h", "x", "t", "n",
       "f", "d", "u", "y", "u", "7", "5", "s", "w" >>

\* prefixes a text handed to a decoder may carry: the six of NIP-19 and a foreign one
Hrps == {Prefix(f) : f \in Forms} \cup {<<"l", "n", "b", "c">>}

Variants == {"Bech32", "Bech32m"}

----------------------------------------------------------------------------
(* The caller: encode a value, possibly re-label the text, decode it as some type *)

\* TagIndexes::default(): no letter has an entry
TagIndexesDefault == [l \in {} |-> {}]

\* no tag index has been built
IndexIdle ==
    /\ tags = <<>>
    /\ index = TagIndexesDefault
    /\ query = {}
    /\ digests = {}

\* no Event is held
EventIdle ==
    /\ event = NoValue
    /\ now = 0
    /\ returned = [method |-> "none", at |-> 0, val |-> FALSE]

\* no decoder loop is running
LoopIdle ==
    /\ locals = NoValue
    /\ iters = 0

\* no JsonValue has been converted
JsonIdle ==
    /\ json = NoValue
    /\ converted = Err("none")

\* no Tag has been made and nothing converted
TagIdle ==
    /\ fields = <<>>
    /\ tagenum = NoValue
    /\ made = Err("none")
    /\ prev = Err("none")
    /\ shown = NoValue

OtherIdle == LoopIdle /\ JsonIdle /\ TagIdle

Init ==
    /\ pc = "start"
    /\ form = "none"
    /\ value = NoValue
    /\ text = <<>>
    /\ data = <<>>
    /\ edits = 0
    /\ req = "none"
    /\ result = Err("none")
    /\ IndexIdle
    /\ EventIdle
    /\ OtherIdle

\* value.to_bech32()
Encode(f, v) ==
    /\ pc = "start"
    /\ pc' = "encoded"
    /\ form' = f
    /\ value' = v
    /\ text' = ToBech32(f, v)
    /\ UNCHANGED <<data, edits, req, result>>
    /\ UNCHANGED <<indexVars, eventVars, otherVars>>

\* another program writes the same payload under prefix h and checksum variant c
Relabel(h, c) ==
    /\ pc = "encoded"
    /\ edits = 0
    /\ <<h, c>> # <<Prefix(form), "Bech32">>
    /\ text' = Bech32Encode(h, Bech32Decode(text).val.data, c)
    /\ edits' = 1
    /\ UNCHANGED <<pc, form, value, data, req, result>>
    /\ UNCHANGED <<indexVars, eventVars, otherVars>>

\* T::from_bech32(text) for the type T of form r
Decode(r) ==
    /\ pc = "encoded"
    /\ pc' = "decoded"
    /\ req' = r
    /\ result' = FromBech32(r, text)
    /\ UNCHANGED <<form, value, text, data, edits>>
    /\ UNCHANGED <<indexVars, eventVars, otherVars>>

\* Nip19::Variant(value).to_bech32()
EncodeNip19(f, v) ==
    /\ pc = "start"
    /\ pc' = "encoded"
    /\ form' = f
    /\ value' = v
    /\ text' = Nip19ToBech32(Nip19(f, v))
    /\ UNCHANGED <<data, edits, req, result>>
    /\ UNCHANGED <<indexVars, eventVars, otherVars>>

\* Nip19::from_bech32(text)
DecodeNip19 ==
    /\ pc = "encoded"
    /\ pc' = "decoded"
    /\ req' = "nip19"
    /\ result' = Nip19FromBech32(text)
    /\ UNCHANGED <<form, value, text, data, edits>>
    /\ UNCHANGED <<indexVars, eventVars, otherVars>>

Next ==
    \/ \E f \in Forms : \E v \in Values(f) : Encode(f, v)
    \/ \E f \in Forms : \E v \in Values(f) : EncodeNip19(f, v)
    \/ \E h \in Hrps, c \in Variants : Relabel(h, c)
    \/ \E r \in Forms : Decode(r)
    \/ DecodeNip19

Spec == Init /\ [][Next]_vars
----------------------------------------------------------------------------
(* The caller of the TLV decoders: a byte buffer, built from the encoders'      *)
(* output and from records other programs write, is handed to from_bech32_data *)

\* the payload of the nevent text of the test from_bech32_nevent_author: an
\* event id record and an author record
TestNeventId ==
    << 219, 229, 117, 84, 84, 159, 146, 192, 139, 234, 121, 11, 5, 220, 55, 222,
       198, 243, 55, 51, 3, 18, 63, 158, 35, 22, 53, 238, 89, 76, 235, 106 >>

TestNeventBytes == <<SPECIAL, 32>> \o TestNeventId \o <<AUTHOR, 32>> \o PK1

Seeds ==
    { <<>>,
      Nip19ProfileBytes(Nip19Profile(PK1, <<>>)),
      TestNeventBytes,
      CoordinateBytes(Coordinate(Kind30000, PK1, <<100>>, <<Accented>>)) }

\* records a buffer may be extended by: well-formed and malformed values of the
\* four known types, and records of types 4 and 200, which no form uses
RecordAlphabet ==
    { <<SPECIAL, PK1>>, <<SPECIAL, <<100>>>>,
      <<RELAY, Accented>>, <<RELAY, <<255>>>>,
      <<AUTHOR, PK1>>, <<AUTHOR, <<100>>>>,
      <<KIND, KindAsU32Bytes(KindText)>>, <<KIND, <<100>>>>,
      <<4, <<>>>>, <<200, <<255, 1>>>>,
      <<SPECIAL, <<>>>> }

RecordBytes(rec) == <<rec[1], Len(rec[2])>> \o rec[2]

InitTlv ==
    /\ pc = "build"
    /\ form = "none"
    /\ value = NoValue
    /\ text = <<>>
    /\ data \in Seeds
    /\ edits = 0
    /\ req = "none"
    /\ result = Err("none")
    /\ IndexIdle
    /\ EventIdle
    /\ OtherIdle

AppendRecord(rec) ==
    /\ pc = "build"
    /\ edits < MaxEdits
    /\ data' = data \o RecordBytes(rec)
    /\ edits' = edits + 1
    /\ UNCHANGED <<pc, form, value, text, req, result>>
    /\ UNCHANGED <<indexVars, eventVars, otherVars>>

PrependRecord(rec) ==
    /\ pc = "build"
    /\ edits < MaxEdits
    /\ data' = RecordBytes(rec) \o data
    /\ edits' = edits + 1
    /\ UNCHANGED <<pc, form, value, text, req, result>>
    /\ UNCHANGED <<indexVars, eventVars, otherVars>>

\* the buffer loses its last k bytes
Truncate(k) ==
    /\ pc = "build"
    /\ edits < MaxEdits
    /\ Len(data) >= k
    /\ data' = SubSeq(data, 1, Len(data) - k)
    /\ edits' = edits + 1
    /\ UNCHANGED <<pc, form, value, text, req, result>>
    /\ UNCHANGED <<indexVars, eventVars, otherVars>>

\* Nip19Profile / Nip19Event / Coordinate ::from_bech32_data(data)
DecodeData(f) ==
    /\ pc = "build"
    /\ pc' = "done"
    /\ form' = f
    /\ result' = FromBech32Data(f, data)
    /\ UNCHANGED <<value, text, data, edits, req>>
    /\ UNCHANGED <<indexVars, eventVars, otherVars>>

NextTlv ==
    \/ \E rec \in RecordAlphabet : AppendRecord(rec)
    \/ \E rec \in RecordAlphabet : PrependRecord(rec)
    \/ \E k \in 1..MaxCut : Truncate(k)
    \/ \E f \in TlvForms : DecodeData(f)

SpecTlv == InitTlv /\ [][NextTlv]_vars

----------------------------------------------------------------------------
(* The loop of from_bech32_data, one iteration at a time *)

\* the buffers a decoder is started on: the encoders' output, the same with one
\* more record of any kind, and the same cut one byte short
LoopBuffers ==
    Seeds
        \cup {s \o RecordBytes(rec) : s \in Seeds, rec \in RecordAlphabet}
        \cup {SubSeq(s, 1, Len(s) - 1) : s \in Seeds \ {<<>>}}

\* from_bech32_data(data) has declared its locals and stands at the loop's test
InitLoop ==
    /\ pc = "loop"
    /\ form \in TlvForms
    /\ data \in LoopBuffers
    /\ locals = TlvStart(form, data)
    /\ iters = 0
    /\ value = NoValue
    /\ text = <<>>
    /\ edits = 0
    /\ req = "none"
    /\ result = Err("none")
    /\ IndexIdle
    /\ EventIdle
    /\ JsonIdle
    /\ TagIdle

\* the loop's test holds and its body runs once: to the drain at its end, or
\* to the `?` or `return Err` that leaves the function
LoopIteration ==
    /\ pc = "loop"
    /\ locals.err = ""
    /\ locals.data # <<>>
    /\ iters <= Len(data)
    /\ locals' = TlvStep(form, locals)
    /\ iters' = iters + 1
    /\ UNCHANGED <<pc, codecVars, indexVars, eventVars, jsonVars, tagVars>>

\* the function returns: the error that left the loop, or the struct built
\* from the locals once the buffer is empty
LoopExit ==
    /\ pc = "loop"
    /\ locals.err # "" \/ locals.data = <<>>
    /\ pc' = "done"
    /\ result' = IF locals.err # "" THEN Err(locals.err) ELSE TlvFinish(form, locals)
    /\ UNCHANGED <<form, value, text, data, edits, req, loopVars, indexVars, eventVars, jsonVars, tagVars>>

NextLoop ==
    \/ LoopIteration
    \/ LoopExit

\* the function runs to its return once called
SpecLoop == InitLoop /\ [][NextLoop]_vars /\ WF_vars(NextLoop)

----------------------------------------------------------------------------
(* Reading a buffer as records, for the statements below *)

BadFrame == [t |-> -1, bytes |-> <<>>]

\* the records of a buffer in order; BadFrame ends the sequence where fewer than 2
\* bytes remain or the length byte exceeds what follows the header
RECURSIVE Records(_)
Records(buf) ==
    IF buf = <<>> THEN <<>>
    ELSE IF Len(buf) < 2 \/ buf[2] + 2 > Len(buf) THEN <<BadFrame>>
    ELSE <<[t |-> buf[1], bytes |-> SubSeq(buf, 3, buf[2] + 2)]>>
            \o Records(SubSeq(buf, buf[2] + 3, Len(buf)))

WellFramed(buf) == \A i \in 1..Len(Records(buf)) : Records(buf)[i] # BadFrame

\* the values of the records of type t, in buffer order
ValuesOfType(recs, t) ==
    LET sel == SelectSeq(recs, LAMBDA r : r.t = t)
    IN  [i \in 1..Len(sel) |-> sel[i].bytes]

FitsU8(str) == Len(str) <= U8Max

RelaysFit(v) == \A i \in 1..Len(v.relays) : FitsU8(v.relays[i])

\* a kind number below 2^32
KindFitsU32(kind) == SubSeq(kind, 1, 4) = <<0, 0, 0, 0>>

\* the decoder of the value's own form was applied to the text as encoded
RoundTrip(f) == pc = "decoded" /\ form = f /\ req = f /\ edits = 0

\* number of bytes the well-framed records at the front of a buffer occupy
RECURSIVE FramedLen(_)
FramedLen(buf) ==
    IF buf = <<>> \/ Len(buf) < 2 \/ buf[2] + 2 > Len(buf) THEN 0
    ELSE buf[2] + 2 + FramedLen(SubSeq(buf, buf[2] + 3, Len(buf)))

\* the buffer up to the first place where the framing breaks
FramedPrefix(buf) == SubSeq(buf, 1, FramedLen(buf))

GoodRecords(buf) == Records(FramedPrefix(buf))

RECURSIVE Concat(_)
Concat(seqs) == IF seqs = <<>> THEN <<>> ELSE Head(seqs) \o Concat(Tail(seqs))

\* the buffer without the well-framed records whose index is in drop
WithoutRecords(buf, drop) ==
    LET recs == GoodRecords(buf)
    IN  Concat([i \in 1..Len(recs) |->
                  IF i \in drop THEN <<>>
                  ELSE <<recs[i].t, Len(recs[i].bytes)>> \o recs[i].bytes])
            \o SubSeq(buf, FramedLen(buf) + 1, Len(buf))

\* the type codes a form reads once (its singleton fields)
SingletonTypes(f) == IF f = "nprofile" THEN {SPECIAL} ELSE {SPECIAL, AUTHOR, KIND}

\* the type codes a form gives no meaning to
UnusedType(f, t) == t \notin SingletonTypes(f) \cup {RELAY}

\* indexes of the records that repeat the type of an earlier record
LaterDuplicates(f, recs) ==
    {i \in 1..Len(recs) :
        /\ recs[i].t \in SingletonTypes(f)
        /\ \E j \in 1..(i - 1) : recs[j].t = recs[i].t}

HasType(recs, t) == \E i \in 1..Len(recs) : recs[i].t = t

\* whether the form's decoder can read the value of a record
ValueReadable(f, r) ==
    CASE r.t = RELAY -> ValidUtf8(r.bytes)
      [] r.t = SPECIAL ->
            IF f = "naddr" THEN ValidUtf8(r.bytes)
            ELSE IF f = "nevent" THEN Len(r.bytes) = KeyLen
            ELSE r.bytes \in KnownPublicKeys
      [] r.t = AUTHOR /\ f # "nprofile" -> r.bytes \in KnownPublicKeys
      [] r.t = KIND /\ f # "nprofile" -> Len(r.bytes) = 4
      [] OTHER -> TRUE

\* every relay record and the first record of every singleton type is readable
RecordsAccepted(f, recs) ==
    \A i \in 1..Len(recs) :
        i \notin LaterDuplicates(f, recs) => ValueReadable(f, recs[i])

IsFieldMissing(r) ==
    /\ ~r.ok
    /\ r.err \in {"FieldMissing(event id)", "FieldMissing(pubkey)",
                  "FieldMissing(kind)", "FieldMissing(identifier)"}

----------------------------------------------------------------------------
(* Statements about the codec, checked under Spec *)

\* C1: every Nip19Event whose kind (if any) is below 2^32 and whose relays fit
\* one length byte decodes from its own text to an equal value, with author and
\* kind present or absent.
C1_NeventRoundTrip ==
    ( /\ RoundTrip("nevent")
      /\ RelaysFit(value)
      /\ value.kind # None => KindFitsU32(value.kind[1]) )
        => result = Ok(value)

\* C2: every Coordinate with kind below 2^32 and identifier and relays of at most
\* 255 bytes each decodes from its own text to an equal value.
C2_CoordinateRoundTrip ==
    ( /\ RoundTrip("naddr")
      /\ KindFitsU32(value.kind)
      /\ FitsU8(value.identifier)
      /\ RelaysFit(value) )
        => result = Ok(value)

C2_Witness ==
    /\ RoundTrip("naddr")
    /\ value.identifier = <<>>
    /\ Len(value.relays) = 2
    /\ value.relays[1] # value.relays[2]
    /\ result = Ok(value)

\* C3: every Nip19Profile whose relays fit one length byte decodes from its own
\* text to the same public key and relay list, re-encoding the decoded value
\* gives the same text, and the profile of the tests has the text of the tests.
C3_ProfileRoundTrip ==
    ( /\ RoundTrip("nprofile")
      /\ RelaysFit(value) )
        => /\ result = Ok(value)
           /\ Nip19ProfileToBech32(result.val) = text
           /\ value = Nip19Profile(PK1, <<RelayDamus>>) => text = TestNprofile

C3_Witness ==
    /\ RoundTrip("nprofile")
    /\ Len(value.relays) = 2
    /\ value.relays[1] # value.relays[2]
    /\ result.ok
    /\ result.val.relays = value.relays

\* C4: a secret key, a public key and an event id each decode from their own text
\* to themselves, and the text carries the form's prefix, the plain checksum and
\* exactly the 32 bytes of the value; the values of the tests have the tests' texts.
C4_BareRoundTrip ==
    ( /\ RoundTrip(form)
      /\ form \in BareForms )
        => /\ result = Ok(value)
           /\ LET d == Bech32Decode(text)
              IN  /\ d.ok
                  /\ d.val.hrp = Prefix(form)
                  /\ d.val.variant = "Bech32"
                  /\ FromBase32(d.val.data) = Ok(value)
                  /\ Len(value) = 32
           /\ (form = "note" /\ value = ID1) => text = TestNote
           /\ (form = "npub" /\ value = PK2) => text = TestNpub
           /\ (form = "nsec" /\ value = SK1) => text = TestNsec

C4_Witness ==
    /\ RoundTrip("note")
    /\ value = ID1
    /\ text = TestNote
    /\ result = Ok(ID1)

\* C5: a checksum-valid text whose prefix is not the requested type's, or whose
\* checksum variant is not plain Bech32, fails with WrongPrefixOrVariant whatever
\* its payload; so no decoder accepts the encoding of a value of another form.
C5_WrongPrefixRejected ==
    (pc = "decoded" /\ req \in Forms) =>
        LET d == Bech32Decode(text)
        IN  /\ (d.ok /\ (d.val.hrp # Prefix(req) \/ d.val.variant # "Bech32"))
                  => result = Err("WrongPrefixOrVariant")
            /\ (edits = 0 /\ req # form) => ~result.ok

\* the text is the untouched encoding of a value of another form, and its
\* payload alone would have been accepted by the requested decoder
C5_Witness ==
    /\ pc = "decoded"
    /\ edits = 0
    /\ req \in Forms
    /\ req # form
    /\ LET d == Bech32Decode(text)
       IN  /\ d.ok
           /\ d.val.hrp # Prefix(req)
           /\ d.val.variant = "Bech32"
           /\ FromPayload(req, FromBase32(d.val.data).val).ok
    /\ result = Err("WrongPrefixOrVariant")

\* C10: the buffer an encoder writes holds the primary record first, one relay
\* record per relay hint in the hints' order, and the author and kind records of
\* the form: for naddr an author record then a kind record, for nevent an author
\* record when the author is present and a kind record when the kind is present.
C10_EncoderRecords ==
    ( /\ pc = "encoded"
      /\ edits = 0
      /\ form \in TlvForms
      /\ RelaysFit(value)
      /\ form = "naddr" => FitsU8(value.identifier) )
        => LET recs == Records(PayloadBytes(form, value))
               n    == Len(recs)
           IN  /\ WellFramed(PayloadBytes(form, value))
               /\ n >= 1
               /\ recs[1].t = SPECIAL
               /\ recs[1].bytes =
                    (CASE form = "nprofile" -> value.public_key
                       [] form = "nevent" -> value.event_id
                       [] form = "naddr" -> value.identifier)
               /\ Len(ValuesOfType(recs, SPECIAL)) = 1
               /\ ValuesOfType(recs, RELAY) = value.relays
               /\ \A i \in 2..(1 + Len(value.relays)) : recs[i].t = RELAY
               /\ ValuesOfType(recs, AUTHOR) =
                    (CASE form = "nprofile" -> <<>>
                       [] form = "nevent" -> value.author
                       [] form = "naddr" -> <<value.pubkey>>)
               /\ ValuesOfType(recs, KIND) =
                    (CASE form = "nprofile" -> <<>>
                       [] form = "nevent" ->
                            IF value.kind = None THEN <<>>
                            ELSE <<KindAsU32Bytes(value.kind[1])>>
                       [] form = "naddr" -> <<KindAsU32Bytes(value.kind)>>)
               /\ \A i \in 1..n : recs[i].t \in {SPECIAL, RELAY, AUTHOR, KIND}
               /\ form = "naddr" => (recs[n - 1].t = AUTHOR /\ recs[n].t = KIND)
IsPrefixOf(a, b) == Len(a) <= Len(b) /\ a = SubSeq(b, 1, Len(a))

\* C11: encoding a Coordinate whose kind is 2^32 or more returns no text and
\* fails with NumericConversion; no text it returns decodes to another kind.
C11_KindOverflowRejected ==
    ( /\ pc \in {"encoded", "decoded"}
      /\ edits = 0
      /\ form = "naddr"
      /\ ~KindFitsU32(value.kind) )
        => /\ text = <<>>
           /\ (pc = "decoded" /\ req = "naddr" /\ result.ok)
                => result.val.kind = value.kind

\* C12: for every value, the relays or identifier longer than 255 bytes
\* included, the buffer an encoder writes is a well-framed record sequence: each
\* length byte equals the number of value bytes after it, there is one relay
\* record per relay hint, and each holds the hint or a truncation of it.
C12_EncoderWellFramed ==
    ( /\ pc = "encoded"
      /\ edits = 0
      /\ form \in TlvForms )
        => LET buf    == PayloadBytes(form, value)
               relays == ValuesOfType(Records(buf), RELAY)
           IN  /\ WellFramed(buf)
               /\ Len(relays) = Len(value.relays)
               /\ \A i \in 1..Len(relays) : IsPrefixOf(relays[i], value.relays[i])
               /\ form = "naddr" =>
                    /\ Records(buf)[1].t = SPECIAL
                    /\ IsPrefixOf(Records(buf)[1].bytes, value.identifier)

\* C25: Nip19::from_bech32 returns the variant of a form carrying x exactly when
\* that form's typed decoder returns x on the same text; a checksum-valid text
\* whose prefix is none of the six, or whose checksum variant is not plain
\* Bech32, fails with WrongPrefixOrVariant; and Nip19::to_bech32 returns the text
\* of the wrapped value's own to_bech32.
C25_GenericAgreesWithTyped ==
    /\ (pc = "decoded" /\ req = "nip19") =>
          LET d == Bech32Decode(text)
          IN  /\ \A f \in Forms :
                    LET typed == FromBech32(f, text)
                    IN  /\ typed.ok <=> (result.ok /\ result.val.variant = Nip19Variant(f))
                        /\ typed.ok => result.val.inner = typed.val
              /\ ( /\ d.ok
                   /\ \/ \A f \in Forms : d.val.hrp # Prefix(f)
                      \/ d.val.variant # "Bech32" )
                    => result = Err("WrongPrefixOrVariant")
    /\ (pc = "encoded" /\ edits = 0) =>
          /\ Nip19ToBech32(Nip19(form, value)) = ToBech32(form, value)
          /\ text = ToBech32(form, value)

\* the generic decoder returned a Coordinate, the one the typed decoder returns
C25_Witness ==
    /\ pc = "decoded"
    /\ req = "nip19"
    /\ result.ok
    /\ result.val.variant = "Coordinate"
    /\ FromBech32("naddr", text) = Ok(result.val.inner)
    /\ Nip19ToBech32(result.val) = text

\* the low 32 bits of a u64 kind number, most significant byte first
Low32(kind) == [i \in 1..4 |-> kind[i + 4]]

\* a u32, given by its 4 big-endian bytes, as a u64 kind number
Widen(b) == [i \in 1..8 |-> IF i <= 4 THEN 0 ELSE b[i - 4]]

\* C27: the naddr encoder writes one kind record, the 4 bytes of the kind number
\* mod 2^32 with the most significant byte first; the naddr and nevent decoders
\* read a 4-byte kind record as a big-endian u32 widened to 64 bits; so the
\* kind a coordinate decodes to from its own text is its kind mod 2^32.
C27_KindRecordBigEndian ==
    ( /\ pc \in {"encoded", "decoded"}
      /\ edits = 0
      /\ form = "naddr"
      /\ FitsU8(value.identifier)
      /\ RelaysFit(value) )
        => /\ ValuesOfType(Records(PayloadBytes(form, value)), KIND)
                = <<Low32(value.kind)>>
           /\ FromBech32Data("nevent",
                    <<SPECIAL, 32>> \o ID1 \o <<KIND, 4>> \o Low32(value.kind))
                = Ok(Nip19Event(ID1, None, Some(Widen(Low32(value.kind))), <<>>))
           /\ (pc = "decoded" /\ req = "naddr")
                => /\ result.ok
                   /\ result.val.kind = Widen(Low32(value.kind))

\* a coordinate of kind 2^32 + 1 decoded from its own text as kind 1
C27_Witness ==
    /\ RoundTrip("naddr")
    /\ value.kind = KindBig
    /\ result.ok
    /\ result.val.kind = KindText


----------------------------------------------------------------------------
(* Statements about the TLV decoders, checked under SpecTlv *)

\* C6: when the decoder's cursor reaches a place where fewer than 2 bytes remain
\* or the length byte exceeds the bytes after the header, decoding fails with the
\* TLV error, whatever valid records precede; a buffer whose framing breaks
\* anywhere never yields a value.
C6_TlvBoundsChecked ==
    (pc = "done" /\ ~WellFramed(data)) =>
        /\ ~result.ok
        /\ RecordsAccepted(form, GoodRecords(data)) => result = Err("TLV")

C6_Witness ==
    /\ pc = "done"
    /\ ~WellFramed(data)
    /\ Len(data) - FramedLen(data) >= 2
    /\ FromBech32Data(form, FramedPrefix(data)).ok
    /\ result = Err("TLV")

\* C7: a well-framed record of a type the form does not use is skipped: the
\* result equals that of the buffer without the record, whatever its value.
C7_UnknownSkipped ==
    pc = "done" =>
        \A i \in 1..Len(GoodRecords(data)) :
            UnusedType(form, GoodRecords(data)[i].t)
                => result = FromBech32Data(form, WithoutRecords(data, {i}))

C7_Witness ==
    /\ pc = "done"
    /\ form = "nprofile"
    /\ result.ok
    /\ \E i \in 1..Len(GoodRecords(data)) :
          /\ GoodRecords(data)[i].t = AUTHOR
          /\ GoodRecords(data)[i].bytes = <<100>>

\* the field a successful result holds for a singleton type
FieldOf(f, val, t) ==
    CASE t = SPECIAL ->
            (CASE f = "nprofile" -> Some(val.public_key)
               [] f = "nevent" -> Some(val.event_id)
               [] f = "naddr" -> Some(val.identifier))
      [] t = AUTHOR -> IF f = "nevent" THEN val.author ELSE Some(val.pubkey)
      [] t = KIND -> IF f = "nevent" THEN val.kind ELSE Some(val.kind)

\* what a decoder makes of the value of a record of a singleton type
FieldFromBytes(t, bytes) == IF t = KIND THEN KindFromU32Bytes(bytes) ELSE bytes

\* C8: each singleton field is the value of the first record of its type; later
\* records of that type, malformed ones included, are ignored, so the result is
\* that of the buffer without them; every relay record is appended in order.
C8_FirstWins ==
    pc = "done" =>
        LET recs == GoodRecords(data)
        IN  /\ result = FromBech32Data(form, WithoutRecords(data, LaterDuplicates(form, recs)))
            /\ result.ok =>
                  /\ result.val.relays = ValuesOfType(recs, RELAY)
                  /\ \A t \in SingletonTypes(form) :
                        FieldOf(form, result.val, t) =
                            IF HasType(recs, t)
                            THEN Some(FieldFromBytes(t, ValuesOfType(recs, t)[1]))
                            ELSE None

C8_Witness ==
    /\ pc = "done"
    /\ form = "naddr"
    /\ result.ok
    /\ LET recs == GoodRecords(data)
       IN  \E i \in LaterDuplicates(form, recs) :
              recs[i].t = AUTHOR /\ recs[i].bytes = <<100>>

\* C9 as stated: a well-framed buffer without a primary record fails with
\* FieldMissing, naddr also without an author or a kind record, and nevent
\* succeeds with author and kind absent when it has no such records.
C9_MissingFieldFails ==
    (pc = "done" /\ WellFramed(data)) =>
        LET recs == Records(data)
        IN  /\ ~HasType(recs, SPECIAL) => IsFieldMissing(result)
            /\ (form = "naddr" /\ (~HasType(recs, AUTHOR) \/ ~HasType(recs, KIND)))
                  => IsFieldMissing(result)
            /\ (form = "nevent" /\ HasType(recs, SPECIAL)
                  /\ ~HasType(recs, AUTHOR) /\ ~HasType(recs, KIND))
                  => (result.ok /\ result.val.author = None /\ result.val.kind = None)

\* C9 amended: the same, for the buffers whose relay records and first records
\* of each singleton type hold a value the decoder can read.
C9_MissingFieldFailsWhenReadable ==
    (pc = "done" /\ WellFramed(data) /\ RecordsAccepted(form, Records(data))) =>
        LET recs == Records(data)
        IN  /\ ~HasType(recs, SPECIAL) => IsFieldMissing(result)
            /\ (form = "naddr" /\ (~HasType(recs, AUTHOR) \/ ~HasType(recs, KIND)))
                  => IsFieldMissing(result)
            /\ (form = "nevent" /\ HasType(recs, SPECIAL)
                  /\ ~HasType(recs, AUTHOR) /\ ~HasType(recs, KIND))
                  => (result.ok /\ result.val.author = None /\ result.val.kind = None)

C9_Witness ==
    /\ pc = "done"
    /\ form = "naddr"
    /\ WellFramed(data)
    /\ RecordsAccepted(form, Records(data))
    /\ HasType(Records(data), SPECIAL)
    /\ HasType(Records(data), AUTHOR)
    /\ ~HasType(Records(data), KIND)
    /\ result = Err("FieldMissing(kind)")

\* a record of a type the form reads whose value has the wrong size or content
WrongValue(f, r) ==
    \/ r.t = KIND /\ f \in {"nevent", "naddr"} /\ Len(r.bytes) # 4
    \/ r.t = SPECIAL /\ f \in {"nprofile", "nevent"} /\ Len(r.bytes) # KeyLen
    \/ r.t = AUTHOR /\ f \in {"nevent", "naddr"} /\ Len(r.bytes) # KeyLen
    \/ r.t = RELAY /\ ~ValidUtf8(r.bytes)
    \/ r.t = SPECIAL /\ f = "naddr" /\ ~ValidUtf8(r.bytes)

FirstOfType(recs, i) == \A j \in 1..(i - 1) : recs[j].t # recs[i].t

\* C28: a well-framed record of a type the form reads, first of its type, whose
\* value has the wrong size (kind not 4 bytes, key or event id not 32 bytes) or
\* is not UTF-8 (relay, identifier) makes the whole decoding fail: it is never
\* skipped and no value is returned, also when the field is optional.
C28_BadValueFails ==
    pc = "done" =>
        LET recs == GoodRecords(data)
        IN  \A i \in 1..Len(recs) :
                (WrongValue(form, recs[i]) /\ FirstOfType(recs, i)) => ~result.ok

\* a nevent buffer whose only unreadable record is a kind record of one byte
C28_Witness ==
    /\ pc = "done"
    /\ form = "nevent"
    /\ WellFramed(data)
    /\ LET recs == Records(data)
       IN  /\ \E i \in 1..Len(recs) :
                 /\ recs[i].t = KIND
                 /\ WrongValue(form, recs[i])
                 /\ \A j \in 1..Len(recs) : j # i => ~WrongValue(form, recs[j])
           /\ HasType(recs, SPECIAL)
    /\ result = Err("TryFromSlice")

----------------------------------------------------------------------------
(* Statements about the decoders' loop, checked under SpecLoop *)

\* the iterations that ran to the drain at the end of the loop body
Drained == IF locals.err # "" THEN iters - 1 ELSE iters

\* an iteration that does not return an error removes the record at the front
\* of the remaining buffer: its 2 header bytes and the bytes its length counts
IterationDrainsRecord ==
    iters' = iters + 1 =>
        \/ locals'.err # ""
        \/ /\ Len(locals.data) >= 2
           /\ Len(locals'.data) = Len(locals.data) - (2 + locals.data[2])
           /\ Len(locals'.data) <= Len(locals.data) - 2
           /\ locals'.data = SubSeq(locals.data, locals.data[2] + 3, Len(locals.data))

\* C26: each TLV decoder terminates on every buffer: an iteration either
\* returns an error or removes exactly 2 + length bytes from the front of the
\* remaining buffer, the iterations that removed a record number at most half
\* the bytes removed so far, and the function returns.
C26_LoopTerminates ==
    /\ [](pc \in {"loop", "done"} => 2 * Drained <= Len(data) - Len(locals.data))
    /\ [][IterationDrainsRecord]_vars
    /\ <>(pc = "done")

\* a decoder returned a value after three iterations
C26_Witness ==
    /\ pc = "done"
    /\ iters >= 3
    /\ locals.data = <<>>
    /\ result.ok

----------------------------------------------------------------------------
(* SipHash-2-4 (bitcoin::hashes::siphash24), the digest of the tag index *)

\* a u64 is written as four 16-bit limbs, least significant first
U16 == 65536

Nibble(x, i) == (x \div Pow2[4 * i]) % 16

Xor16(x, y) ==
    Xor5[Nibble(x, 0)][Nibble(y, 0)]
        + 16 * Xor5[Nibble(x, 1)][Nibble(y, 1)]
        + 256 * Xor5[Nibble(x, 2)][Nibble(y, 2)]
        + 4096 * Xor5[Nibble(x, 3)][Nibble(y, 3)]

Xor64(a, b) == <<Xor16(a[1], b[1]), Xor16(a[2], b[2]), Xor16(a[3], b[3]), Xor16(a[4], b[4])>>

\* wrapping_add of two u64
Add64(a, b) ==
    LET s1 == a[1] + b[1]
        s2 == a[2] + b[2] + (s1 \div U16)
        s3 == a[3] + b[3] + (s2 \div U16)
        s4 == a[4] + b[4] + (s3 \div U16)
    IN  <<s1 % U16, s2 % U16, s3 % U16, s4 % U16>>

\* rotate_left of a u64 by n bits, n in 1..63
Rotl64(a, n) ==
    LET q == n \div 16
        r == n % 16
        limb(i) == a[((i - q + 8) % 4) + 1]
        part(i) == ((limb(i) * Pow2[r]) % U16) + (limb(i - 1) \div Pow2[16 - r])
    IN  <<part(0), part(1), part(2), part(3)>>

\* F applied to the value of val: val is evaluated once, whatever the number
\* of places F uses it in
Bind(val, F(_)) == CHOOSE y \in {F(x) : x \in {val}} : TRUE

\* one SipRound on the state <<v0, v1, v2, v3>>
SipRound(state) ==
    Bind(state, LAMBDA v :
    Bind(Add64(v[1], v[2]), LAMBDA a0 :
    Bind(Xor64(Rotl64(v[2], 13), a0), LAMBDA a1 :
    Bind(Add64(v[3], v[4]), LAMBDA a2 :
    Bind(Xor64(Rotl64(v[4], 16), a2), LAMBDA a3 :
    Bind(Add64(Rotl64(a0, 32), a3), LAMBDA c0 :
    Bind(Add64(a2, a1), LAMBDA c2 :
        << c0, Xor64(Rotl64(a1, 17), c2), Rotl64(c2, 32), Xor64(Rotl64(a3, 21), c0) >>
    )))))))

\* n SipRounds in a row
RECURSIVE SipRounds(_, _)
SipRounds(v, n) ==
    IF n = 0 THEN v
    ELSE Bind(SipRound(v), LAMBDA w : SipRounds(w, n - 1))

\* the state after absorbing the 8-byte word m: v3 ^= m, two rounds, v0 ^= m
SipCompress(state, word) ==
    Bind(<<state, word>>, LAMBDA p :
    Bind(SipRounds(<<p[1][1], p[1][2], p[1][3], Xor64(p[1][4], p[2])>>, 2), LAMBDA w :
        <<Xor64(w[1], p[2]), w[2], w[3], w[4]>> ))

\* eight bytes, least significant first, as a u64
WordLE(b) ==
    <<b[1] + 256 * b[2], b[3] + 256 * b[4], b[5] + 256 * b[6], b[7] + 256 * b[8]>>

BytesLE(w) ==
    <<w[1] % 256, w[1] \div 256, w[2] % 256, w[2] \div 256,
      w[3] % 256, w[3] \div 256, w[4] % 256, w[4] \div 256>>

\* "somepseudorandomlygeneratedbytes", the initial state for the keys (0, 0)
SipInit ==
    << WordLE(<<117, 101, 115, 112, 101, 109, 111, 115>>),
       WordLE(<<109, 111, 100, 110, 97, 114, 111, 100>>),
       WordLE(<<97, 114, 101, 110, 101, 103, 121, 108>>),
       WordLE(<<115, 101, 116, 121, 98, 100, 101, 116>>) >>

\* the state after absorbing the 8-byte blocks lo..hi of the message; the range
\* is halved so that the evaluation depth stays logarithmic in its length
RECURSIVE SipBlocks(_, _, _, _)
SipBlocks(v, msg, lo, hi) ==
    IF lo > hi THEN v
    ELSE IF lo = hi THEN SipCompress(v, WordLE(SubSeq(msg, 8 * lo - 7, 8 * lo)))
    ELSE Bind(SipBlocks(v, msg, lo, (lo + hi) \div 2), LAMBDA left :
            SipBlocks(left, msg, ((lo + hi) \div 2) + 1, hi))

\* the finalization: v2 ^= 0xff, four rounds, v0 ^ v1 ^ v2 ^ v3
SipFinish(state) ==
    Bind(state, LAMBDA v :
    Bind(SipRounds(<<v[1], v[2], Xor64(v[3], <<255, 0, 0, 0>>), v[4]>>, 4), LAMBDA f :
        Xor64(Xor64(f[1], f[2]), Xor64(f[3], f[4])) ))

\* SipHash-2-4 of a byte string under the keys (0, 0), as a u64: the full
\* 8-byte blocks, then the rest of the message padded with zeros and closed by
\* the length byte
SipHash24U64(bytes) ==
    Bind(bytes, LAMBDA msg :
        SipFinish(SipCompress(
            SipBlocks(SipInit, msg, 1, Len(msg) \div 8),
            WordLE(SubSeq(msg, 8 * (Len(msg) \div 8) + 1, Len(msg))
                    \o [i \in 1..(7 - (Len(msg) % 8)) |-> 0]
                    \o <<Len(msg) % 256>>))))

\* SipHash24::hash(bytes): the digest is the u64 in little-endian byte order
SipHash24(msg) == Bind(SipHash24U64(msg), BytesLE)

----------------------------------------------------------------------------
(* crates/nostr/src/event/tag/indexes.rs *)

TAG_INDEX_VALUE_SIZE == 8

\* the code point of the first character of a non-empty string
FirstChar(str) ==
    CASE LeadLen(str[1]) = 2 -> (str[1] % 32) * 64 + (str[2] % 64)
      [] LeadLen(str[1]) = 3 -> (str[1] % 16) * 4096 + (str[2] % 64) * 64 + (str[3] % 64)
      [] LeadLen(str[1]) = 4 ->
            (str[1] % 8) * 262144 + (str[2] % 64) * 4096 + (str[3] % 64) * 64 + (str[4] % 64)
      [] OTHER -> str[1]

\* Alphabet::try_from(char): the letter of an ASCII letter, nothing for any
\* other character
AlphabetTryFrom(c) ==
    IF (c >= 97 /\ c <= 122) \/ (c >= 65 /\ c <= 90) THEN Some(c) ELSE None

single_char_tagname(tagname) ==
    IF tagname = <<>> THEN None ELSE AlphabetTryFrom(FirstChar(tagname))

hash(str) == SubSeq(SipHash24(str), 1, TAG_INDEX_VALUE_SIZE)

\* an insert that replaces the letter's set by the new digest alone
EntryInsertReplace(idx, letter, digest) ==
    [l \in DOMAIN idx \cup {letter} |-> IF l = letter THEN {digest} ELSE idx[l]]

\* tag_index.entry(letter).or_default().insert(digest)
EntryInsert(idx, letter, digest) ==
    [l \in DOMAIN idx \cup {letter} |->
        (IF l \in DOMAIN idx THEN idx[l] ELSE {})
            \cup (IF l = letter THEN {digest} ELSE {})]

\* the loop body with every element after the name hashed into the letter's set
IndexTagEveryValue(idx, t) ==
    IF Len(t) > 1 /\ single_char_tagname(t[1]) # None
    THEN [l \in DOMAIN idx \cup {single_char_tagname(t[1])[1]} |->
            (IF l \in DOMAIN idx THEN idx[l] ELSE {})
                \cup (IF l = single_char_tagname(t[1])[1]
                      THEN {hash(t[i]) : i \in 2..Len(t)} ELSE {})]
    ELSE idx

\* one turn of the loop of From: a tag of more than one element whose name
\* starts with a letter adds the digest of its second element
IndexTag(idx, t) ==
    IF Len(t) > 1 /\ single_char_tagname(t[1]) # None
    THEN EntryInsert(idx, single_char_tagname(t[1])[1], hash(t[2]))
    ELSE idx

RECURSIVE IndexTags(_, _, _)
IndexTags(idx, ts, i) ==
    IF i > Len(ts) THEN idx
    ELSE IndexTags(IndexTag(idx, ts[i]), ts, i + 1)

\* TagIndexes::from(iter)
TagIndexesFrom(ts) == IndexTags(TagIndexesDefault, ts, 1)

HexDigits == <<48, 49, 50, 51, 52, 53, 54, 55, 56, 57, 97, 98, 99, 100, 101, 102>>

\* lower-case hexadecimal text of a byte string
ToHex(bytes) ==
    [i \in 1..(2 * Len(bytes)) |->
        IF i % 2 = 1 THEN HexDigits[(bytes[(i + 1) \div 2] \div 16) + 1]
        ELSE HexDigits[(bytes[i \div 2] % 16) + 1]]

\* GenericTagValue: a public key, an event id or a string
GenericPubkey(pk) == [variant |-> "Pubkey", val |-> pk]

GenericEventId(id) == [variant |-> "EventId", val |-> id]

GenericString(str) == [variant |-> "String", val |-> str]

\* value.to_string(): keys and ids in hexadecimal, a string as it is
GenericTagValueToString(v) ==
    IF v.variant = "String" THEN v.val ELSE ToHex(v.val)

\* the iterator with the bytes of the value hashed, not its string form
TagIndexValuesIterRaw(set) == {hash(v.val) : v \in set}

\* TagIndexValues::iter(set): the digests the iterator yields
TagIndexValuesIter(set) == {hash(GenericTagValueToString(v)) : v \in set}

----------------------------------------------------------------------------
(* The owner of a tag index: builds it from tags, reaches into it through  *)
(* deref_mut, and hashes the values of a filter                            *)

MaxTags == 2

Str_e == <<101>>

Str_p == <<112>>

Str_x == <<120>>

Str_abc == <<97, 98, 99>>

Str_def == <<100, 101, 102>>

Str_123 == <<49, 50, 51>>

Str_expiration == <<101, 120, 112, 105, 114, 97, 116, 105, 111, 110>>

\* the tags of the owner: single-letter names, longer names, names that are
\* no letter, tags of zero, one and three elements
TagAlphabet ==
    { <<Str_e, Str_abc>>, <<Str_p, Str_def>>,
      <<Str_x>>, <<>>, <<Str_e, Str_abc, Str_def>>,
      <<Str_p, ToHex(PK1)>>, <<Str_expiration, Str_123>>,
      <<Accented, Str_abc>>, <<<<>>, Str_abc>> }

RECURSIVE SeqsUpTo(_, _)
SeqsUpTo(S, n) ==
    IF n = 0 THEN {<<>>}
    ELSE SeqsUpTo(S, n - 1) \cup {Append(q, x) : q \in SeqsUpTo(S, n - 1), x \in S}

TagSeqs == SeqsUpTo(TagAlphabet, MaxTags)

\* the value sets of a filter
QuerySets ==
    { {}, {GenericString(Str_abc)}, {GenericPubkey(PK1)},
      {GenericString(Str_abc), GenericString(Str_123), GenericPubkey(PK1)} }

\* the letters ("e", "p", "z") and the digest a caller writes through deref_mut
ForeignLetters == {101, 112, 122}

ForeignDigest == hash(Str_x)

CodecIdle ==
    /\ form = "none"
    /\ value = NoValue
    /\ text = <<>>
    /\ data = <<>>
    /\ edits = 0
    /\ req = "none"
    /\ result = Err("none")

InitIndex ==
    /\ pc = "start"
    /\ CodecIdle
    /\ IndexIdle
    /\ EventIdle
    /\ OtherIdle

\* TagIndexes::from(tags.into_iter())
From(ts) ==
    /\ pc = "start"
    /\ pc' = "built"
    /\ tags' = ts
    /\ index' = TagIndexesFrom(ts)
    /\ UNCHANGED <<query, digests, codecVars, eventVars, otherVars>>

\* index.deref_mut().entry(l).or_default().insert(d)
DerefMutInsert(l, d) ==
    /\ pc = "built"
    /\ pc' = "mutated"
    /\ index' = EntryInsert(index, l, d)
    /\ UNCHANGED <<tags, query, digests, codecVars, eventVars, otherVars>>

\* index.deref_mut().remove(&l)
DerefMutRemove(l) ==
    /\ pc = "built"
    /\ l \in DOMAIN index
    /\ pc' = "mutated"
    /\ index' = [k \in DOMAIN index \ {l} |-> index[k]]
    /\ UNCHANGED <<tags, query, digests, codecVars, eventVars, otherVars>>

\* the owner builds the index of the same tags again
Rebuild ==
    /\ pc = "mutated"
    /\ pc' = "built"
    /\ index' = TagIndexesFrom(tags)
    /\ UNCHANGED <<tags, query, digests, codecVars, eventVars, otherVars>>

\* TagIndexValues::iter(&set).collect()
Iter(set) ==
    /\ pc = "built"
    /\ pc' = "queried"
    /\ query' = set
    /\ digests' = TagIndexValuesIter(set)
    /\ UNCHANGED <<tags, index, codecVars, eventVars, otherVars>>

NextIndex ==
    \/ \E ts \in TagSeqs : From(ts)
    \/ \E l \in ForeignLetters : DerefMutInsert(l, ForeignDigest)
    \/ \E l \in ForeignLetters : DerefMutRemove(l)
    \/ Rebuild
    \/ \E set \in QuerySets : Iter(set)

SpecIndex == InitIndex /\ [][NextIndex]_vars

----------------------------------------------------------------------------
(* Statements about the tag index, checked under SpecIndex *)

\* number of characters of a string
CharCount(str) == Cardinality({i \in 1..Len(str) : ~IsCont(str[i])})

\* the name of the tag is one ASCII letter
SingleLetterName(t) == Len(t[1]) = 1 /\ AlphabetTryFrom(t[1][1]) # None

\* the digests of the second elements of the tags named by the letter
DigestsUnder(ts, letter) ==
    {SubSeq(SipHash24(ts[i][2]), 1, 8) :
        i \in {j \in 1..Len(ts) : Len(ts[j]) >= 2 /\ ts[j][1] = <<letter>>}}

\* the index is the one From returned for the tags
Fresh == pc \in {"built", "queried"}

\* C13: a tag of two or more elements whose name is longer than one character
\* contributes no entry under any letter: the index is the index of the tags
\* without those tags.
C13_LongNamesNotIndexed ==
    Fresh =>
        index = TagIndexesFrom(SelectSeq(tags,
                    LAMBDA t : ~(Len(t) >= 2 /\ CharCount(t[1]) > 1)))

\* C14: when every tag that has a name has a single letter as its name, the
\* index has an entry for exactly the letters that name a tag of two or more
\* elements, and the entry of a letter is exactly the set of the 8-byte SipHash
\* digests of the second elements of the tags of that name; the index of
\* [["e","abc"],["p","def"]] holds the digest of "abc" under e and of "def" under p.
C14_IndexIsFirstValues ==
    ( /\ Fresh
      /\ \A i \in 1..Len(tags) : Len(tags[i]) >= 1 => SingleLetterName(tags[i]) )
        => /\ DOMAIN index =
                {tags[i][1][1] : i \in {j \in 1..Len(tags) : Len(tags[j]) >= 2}}
           /\ \A letter \in DOMAIN index : index[letter] = DigestsUnder(tags, letter)
           /\ tags = <<<<Str_e, Str_abc>>, <<Str_p, Str_def>>>> =>
                /\ index[101] = {<<222, 238, 112, 71, 150, 132, 200, 63>>}
                /\ index[112] = {<<183, 96, 66, 185, 126, 132, 125, 44>>}

C14_Witness ==
    /\ pc = "built"
    /\ tags = <<<<Str_e, Str_abc, Str_def>>, <<Str_x>>>>
    /\ DOMAIN index = {101}
    /\ Cardinality(index[101]) = 1

\* C15: the digests TagIndexValues::iter yields are, value by value, the digest
\* From inserts for a tag whose second element is the string form of the value,
\* so every value of the filter that equals the second element of an indexed
\* tag has its digest in the entry of that tag's letter.
C15_QueryHashAgrees ==
    pc = "queried" =>
        /\ digests =
              UNION {TagIndexesFrom(<<<<Str_e, GenericTagValueToString(v)>>>>)[101] :
                        v \in query}
        /\ \A v \in query : \A i \in 1..Len(tags) :
              ( /\ Len(tags[i]) >= 2
                /\ single_char_tagname(tags[i][1]) # None
                /\ tags[i][2] = GenericTagValueToString(v) )
                  => \E d \in digests : d \in index[single_char_tagname(tags[i][1])[1]]

C15_Witness ==
    /\ pc = "queried"
    /\ GenericPubkey(PK1) \in query
    /\ \E i \in 1..Len(tags) : tags[i] = <<Str_p, ToHex(PK1)>>
    /\ 112 \in DOMAIN index
    /\ digests \cap index[112] # {}

\* C16: in every state the index equals the build of the tags it was computed
\* from; nothing but a rebuild changes it.
C16_IndexNeverMutated ==
    pc \in {"built", "mutated", "queried"} => index = TagIndexesFrom(tags)

\* the tags From reads: more than one element and a name that starts with a letter
Qualifying(t) == Len(t) > 1 /\ single_char_tagname(t[1]) # None

\* the (letter, first value) pairs of the qualifying tags
PairSet(ts) ==
    {<<single_char_tagname(ts[i][1])[1], ts[i][2]>> :
        i \in {j \in 1..Len(ts) : Qualifying(ts[j])}}

\* the map a set of (letter, value) pairs determines: under each letter the
\* digests of the values paired with it
IndexOfPairs(pairs) ==
    [l \in {pr[1] : pr \in pairs} |-> {hash(pr[2]) : pr \in {q \in pairs : q[1] = l}}]

Reverse(ts) == [i \in 1..Len(ts) |-> ts[Len(ts) + 1 - i]]

\* every qualifying tag followed by a tag of the same name and first value
\* with one more element
WithLongerTwins(ts) ==
    Concat([i \in 1..Len(ts) |->
              IF Qualifying(ts[i])
              THEN <<ts[i], <<ts[i][1], ts[i][2], Str_x>>>>
              ELSE <<ts[i]>>])

\* C30: the built index depends only on the set of (letter, first value) pairs
\* of the qualifying tags: the tags in another order, each tag repeated, and a
\* tag of the same name and first value with other later elements added give an
\* equal index, the index is the map the pair set determines, and every letter
\* that is a key of a built index maps to a non-empty set.
C30_IndexOfPairSet ==
    pc = "built" =>
        /\ TagIndexesFrom(Reverse(tags)) = index
        /\ TagIndexesFrom(tags \o tags) = index
        /\ TagIndexesFrom(WithLongerTwins(tags)) = index
        /\ index = IndexOfPairs(PairSet(tags))
        /\ \A l \in DOMAIN index : index[l] # {}

\* two different tags under one letter: the letter's set holds both digests
C30_Witness ==
    /\ pc = "built"
    /\ Len(tags) = 2
    /\ Qualifying(tags[1])
    /\ Qualifying(tags[2])
    /\ tags[1][1] = tags[2][1]
    /\ tags[1][2] # tags[2][2]
    /\ tags[1][1] = Str_p
    /\ Cardinality(index[112]) = 2
    /\ TagIndexesFrom(Reverse(tags)) = index

----------------------------------------------------------------------------
(* The core Event (nostr::Event), which the binding wraps.  An event id is *)
(* written as the canonical form it is the hash of; a signature as the     *)
(* pair of the key that signed and the message signed.                     *)

TagPublicKey(public_key) ==
    [variant |-> "PublicKey", public_key |-> public_key, relay_url |-> None, alias |-> None]

TagEvent(event_id) ==
    [variant |-> "Event", event_id |-> event_id, relay_url |-> None, marker |-> None]

TagA(kind, public_key, identifier) ==
    [variant |-> "A", kind |-> kind, public_key |-> public_key,
     identifier |-> identifier, relay_url |-> None]

TagExpiration(timestamp) == [variant |-> "Expiration", timestamp |-> timestamp]

TagHashtag(hashtag) == [variant |-> "Hashtag", hashtag |-> hashtag]

\* hash(canonical_form(author, created_at, kind, tags, content))
ComputeId(pubkey, created_at, kind, tgs, content) ==
    <<0, pubkey, created_at, kind, tgs, content>>

\* the Schnorr signature of a message by the holder of a public key
Sign(pubkey, msg) == [signer |-> pubkey, msg |-> msg]

EventSdk(id, pubkey, created_at, kind, tgs, content, sig) ==
    [id |-> id, pubkey |-> pubkey, created_at |-> created_at, kind |-> kind,
     tags |-> tgs, content |-> content, sig |-> sig]

EventSdk_verify_id(e) ==
    IF e.id = ComputeId(e.pubkey, e.created_at, e.kind, e.tags, e.content)
    THEN Ok(<<>>) ELSE Err("InvalidId")

EventSdk_verify_signature(e) ==
    IF e.sig = Sign(e.pubkey, e.id) THEN Ok(<<>>) ELSE Err("InvalidSignature")

\* both checks, the id first
EventSdk_verify(e) ==
    IF ~EventSdk_verify_id(e).ok THEN EventSdk_verify_id(e)
    ELSE EventSdk_verify_signature(e)

\* the timestamp of the first expiration tag
EventSdk_expiration(e) ==
    LET sel == SelectSeq(e.tags, LAMBDA t : t.variant = "Expiration")
    IN  IF sel = <<>> THEN None ELSE Some(sel[1].timestamp)

\* the expiration tag's timestamp compared to the current time
EventSdk_is_expired(e, clock) ==
    EventSdk_expiration(e) # None /\ EventSdk_expiration(e)[1] < clock

EventSdk_is_replaceable(e) ==
    e.kind = 0 \/ e.kind = 3 \/ (e.kind >= 10000 /\ e.kind <= 19999)

EventSdk_is_ephemeral(e) == e.kind >= 20000 /\ e.kind <= 29999

EventSdk_is_parameterized_replaceable(e) == e.kind >= 30000 /\ e.kind <= 39999

EventSdk_is_regular(e) ==
    /\ ~EventSdk_is_replaceable(e)
    /\ ~EventSdk_is_ephemeral(e)
    /\ ~EventSdk_is_parameterized_replaceable(e)

EventSdk_public_keys(e) ==
    LET sel == SelectSeq(e.tags, LAMBDA t : t.variant = "PublicKey")
    IN  [i \in 1..Len(sel) |-> sel[i].public_key]

EventSdk_event_ids(e) ==
    LET sel == SelectSeq(e.tags, LAMBDA t : t.variant = "Event")
    IN  [i \in 1..Len(sel) |-> sel[i].event_id]

\* the coordinate of every a tag; the kind of a Coordinate is a Kind
EventSdk_coordinates(e) ==
    LET sel == SelectSeq(e.tags, LAMBDA t : t.variant = "A")
    IN  [i \in 1..Len(sel) |->
            [kind |-> sel[i].kind, pubkey |-> sel[i].public_key,
             identifier |-> sel[i].identifier, relays |-> sel[i].relay_url]]

----------------------------------------------------------------------------
(* bindings/nostr-ffi/src/event/mod.rs and nips/nip01.rs: the Event object *)
(* of the bindings and the objects its methods hand out                    *)

\* Arc::new(x.into()) for a public key, an event id, a timestamp and a tag
FfiPublicKey(public_key) == [inner |-> public_key]

FfiEventId(event_id) == [inner |-> event_id]

FfiTimestamp(timestamp) == [inner |-> timestamp]

FfiTag(t) == [inner |-> t]

\* impl From<nip01::Coordinate> for Coordinate
FfiCoordinate(c) ==
    [kind |-> c.kind, pubkey |-> FfiPublicKey(c.pubkey),
     identifier |-> c.identifier, relays |-> c.relays]

\* impl From<EventSdk> for Event
Event(inner) == [inner |-> inner]

Event_kind(e) == e.inner.kind

Event_tags(e) == [i \in 1..Len(e.inner.tags) |-> FfiTag(e.inner.tags[i])]

\* verify with only the id checked
Event_verify_IdOnly(e) == EventSdk_verify_id(e.inner).ok

Event_verify(e) == EventSdk_verify(e.inner).ok

Event_verify_id(e) ==
    IF EventSdk_verify_id(e.inner).ok THEN Ok(<<>>) ELSE Err(EventSdk_verify_id(e.inner).err)

Event_verify_signature(e) ==
    IF EventSdk_verify_signature(e.inner).ok THEN Ok(<<>>)
    ELSE Err(EventSdk_verify_signature(e.inner).err)

Event_expiration(e) ==
    IF EventSdk_expiration(e.inner) = None THEN None
    ELSE Some(FfiTimestamp(EventSdk_expiration(e.inner)[1]))

\* is_expired answering whether the event has no expiration that has passed
Event_is_expired_Negated(e, clock) == ~EventSdk_is_expired(e.inner, clock)

\* is_expired at the time the clock shows
Event_is_expired(e, clock) == EventSdk_is_expired(e.inner, clock)

Event_is_regular(e) == EventSdk_is_regular(e.inner)

\* is_replaceable asking the core whether the event is regular
Event_is_replaceable_AsRegular(e) == EventSdk_is_regular(e.inner)

Event_is_replaceable(e) == EventSdk_is_replaceable(e.inner)

Event_is_ephemeral(e) == EventSdk_is_ephemeral(e.inner)

Event_is_parameterized_replaceable(e) == EventSdk_is_parameterized_replaceable(e.inner)

\* public_keys collected into a set and handed out without repetitions
Event_public_keys_Unique(e) ==
    LET keys == EventSdk_public_keys(e.inner)
        sel  == SelectSeq([i \in 1..Len(keys) |-> i],
                          LAMBDA i : \A j \in 1..(i - 1) : keys[j] # keys[i])
    IN  [i \in 1..Len(sel) |-> FfiPublicKey(keys[sel[i]])]

Event_public_keys(e) ==
    [i \in 1..Len(EventSdk_public_keys(e.inner)) |->
        FfiPublicKey(EventSdk_public_keys(e.inner)[i])]

Event_event_ids(e) ==
    [i \in 1..Len(EventSdk_event_ids(e.inner)) |->
        FfiEventId(EventSdk_event_ids(e.inner)[i])]

Event_coordinates(e) ==
    [i \in 1..Len(EventSdk_coordinates(e.inner)) |->
        FfiCoordinate(EventSdk_coordinates(e.inner)[i])]

----------------------------------------------------------------------------
(* The holder of an Event calls its methods while the clock advances *)

MaxNow == 3

EventKinds == {0, 1, 3, 4, 9999, 10000, 10002, 19999, 20000, 29999, 30000, 39999, 40000}

TagLists ==
    { <<>>,
      <<TagPublicKey(PK1), TagHashtag(Str_abc), TagEvent(ID1), TagPublicKey(PK2),
        TagPublicKey(PK1)>>,
      <<TagExpiration(2)>>,
      <<TagHashtag(Str_def), TagExpiration(2), TagPublicKey(PK2)>>,
      <<TagA(30000, PK1, Str_abc), TagEvent(ID1), TagEvent(ID1), TagExpiration(1),
        TagA(30000, PK1, <<>>), TagExpiration(3)>> }

\* an event with the id of its fields and the signature of its author
Signed(pubkey, created_at, kind, tgs, content) ==
    EventSdk(ComputeId(pubkey, created_at, kind, tgs, content), pubkey, created_at,
             kind, tgs, content,
             Sign(pubkey, ComputeId(pubkey, created_at, kind, tgs, content)))

\* events as parsed from JSON: sound ones, ones whose content was changed after
\* signing, ones signed by another key, and ones with both defects
EventSdks ==
    {Signed(PK1, 1, k, <<>>, Str_abc) : k \in EventKinds}
        \cup {Signed(PK1, 1, 1, tl, Str_abc) : tl \in TagLists}
        \cup {[Signed(PK1, 1, 1, tl, Str_abc) EXCEPT !.content = Str_def] : tl \in TagLists}
        \cup {[Signed(PK1, 1, 1, tl, Str_abc) EXCEPT !.sig = Sign(PK2, @.msg)] :
                tl \in TagLists}
        \cup {[Signed(PK1, 1, 1, tl, Str_abc) EXCEPT !.content = Str_def,
                                                     !.sig = Sign(PK2, @.msg)] :
                tl \in TagLists}

InitEvent ==
    /\ pc = "held"
    /\ CodecIdle
    /\ IndexIdle
    /\ event \in {Event(inner) : inner \in EventSdks}
    /\ now = 0
    /\ returned = [method |-> "none", at |-> 0, val |-> FALSE]
    /\ OtherIdle

\* a method of the Event returns v to the holder
Return(method, v) ==
    /\ pc = "held"
    /\ returned' = [method |-> method, at |-> now, val |-> v]
    /\ UNCHANGED <<pc, event, now, codecVars, indexVars, otherVars>>

CallKind == Return("kind", Event_kind(event))

CallTags == Return("tags", Event_tags(event))

CallVerify == Return("verify", Event_verify(event))

CallVerifyId == Return("verify_id", Event_verify_id(event))

CallVerifySignature == Return("verify_signature", Event_verify_signature(event))

CallExpiration == Return("expiration", Event_expiration(event))

CallIsExpired == Return("is_expired", Event_is_expired(event, now))

CallIsRegular == Return("is_regular", Event_is_regular(event))

CallIsReplaceable == Return("is_replaceable", Event_is_replaceable(event))

CallIsEphemeral == Return("is_ephemeral", Event_is_ephemeral(event))

CallIsParameterizedReplaceable ==
    Return("is_parameterized_replaceable", Event_is_parameterized_replaceable(event))

CallPublicKeys == Return("public_keys", Event_public_keys(event))

CallEventIds == Return("event_ids", Event_event_ids(event))

CallCoordinates == Return("coordinates", Event_coordinates(event))

\* a second passes
Tick ==
    /\ pc = "held"
    /\ now < MaxNow
    /\ now' = now + 1
    /\ UNCHANGED <<pc, event, returned, codecVars, indexVars, otherVars>>

NextEvent ==
    \/ CallKind
    \/ CallTags
    \/ CallVerify
    \/ CallVerifyId
    \/ CallVerifySignature
    \/ CallExpiration
    \/ CallIsExpired
    \/ CallIsRegular
    \/ CallIsReplaceable
    \/ CallIsEphemeral
    \/ CallIsParameterizedReplaceable
    \/ CallPublicKeys
    \/ CallEventIds
    \/ CallCoordinates
    \/ Tick

SpecEvent == InitEvent /\ [][NextEvent]_vars

----------------------------------------------------------------------------
(* Statements about the Event of the bindings, checked under SpecEvent *)

Returned(method) == pc = "held" /\ returned.method = method

\* C17: each of the four classification methods answers by the kind number
\* alone: replaceable for 0, 3 and 10000..19999, ephemeral for 20000..29999,
\* parameterized replaceable for 30000..39999, regular for every other kind;
\* every event is in exactly one of the four classes.
C17_KindClasses ==
    LET k     == Event_kind(event)
        repl  == k \in {0, 3} \/ k \in 10000..19999
        eph   == k \in 20000..29999
        param == k \in 30000..39999
    IN  /\ Returned("is_replaceable") => returned.val = repl
        /\ Returned("is_ephemeral") => returned.val = eph
        /\ Returned("is_parameterized_replaceable") => returned.val = param
        /\ Returned("is_regular") => returned.val = (~repl /\ ~eph /\ ~param)
        /\ pc = "held" =>
             Cardinality({c \in {1, 2, 3, 4} :
                 CASE c = 1 -> Event_is_regular(event)
                   [] c = 2 -> Event_is_replaceable(event)
                   [] c = 3 -> Event_is_ephemeral(event)
                   [] c = 4 -> Event_is_parameterized_replaceable(event)}) = 1

C17_Witness ==
    /\ Returned("is_replaceable")
    /\ Event_kind(event) = 10002
    /\ returned.val = TRUE

\* C18: is_expired answers false at every time for an event without expiration
\* tag; for an event with one, the answer is the same for every event of the
\* same expiration at the same time, and once the answer is true it is true at
\* every later time.
C18_ExpiryMonotone ==
    Returned("is_expired") =>
        /\ Event_expiration(event) = None => returned.val = FALSE
        /\ \A other \in EventSdks :
              Event_expiration(Event(other)) = Event_expiration(event)
                  => Event_is_expired(Event(other), returned.at) = returned.val
        /\ returned.val => \A t \in returned.at..(MaxNow + 1) : Event_is_expired(event, t)

C18_Witness ==
    /\ Returned("is_expired")
    /\ returned.val = TRUE
    /\ Event_expiration(event) = Some(FfiTimestamp(1))
    /\ Len(SelectSeq(event.inner.tags, LAMBDA t : t.variant = "Expiration")) = 2

\* the entries a method makes of the tags, tag by tag: Entry(t) for a tag of the
\* variant, nothing for any other tag
EntriesOf(tgs, variant, Entry(_)) ==
    Concat([i \in 1..Len(tgs) |->
              IF tgs[i].variant = variant THEN <<Entry(tgs[i])>> ELSE <<>>])

\* C19: public_keys, event_ids and coordinates return one entry per p, e and a
\* tag, in tag order, repetitions kept, and nothing for any other tag; tags
\* returns every tag, in order.
C19_ExtractionOrder ==
    /\ Returned("public_keys") =>
          returned.val = EntriesOf(event.inner.tags, "PublicKey",
                                   LAMBDA t : FfiPublicKey(t.public_key))
    /\ Returned("event_ids") =>
          returned.val = EntriesOf(event.inner.tags, "Event",
                                   LAMBDA t : FfiEventId(t.event_id))
    /\ Returned("coordinates") =>
          returned.val = EntriesOf(event.inner.tags, "A",
                LAMBDA t : [kind |-> t.kind, pubkey |-> FfiPublicKey(t.public_key),
                            identifier |-> t.identifier, relays |-> <<>>])
    /\ Returned("tags") =>
          /\ Len(returned.val) = Len(event.inner.tags)
          /\ \A i \in 1..Len(returned.val) : returned.val[i] = FfiTag(event.inner.tags[i])

C19_Witness ==
    /\ Returned("public_keys")
    /\ Len(returned.val) = 3
    /\ returned.val[1] = returned.val[3]
    /\ returned.val[1] # returned.val[2]
    /\ Len(event.inner.tags) = 5

\* what verify, verify_id and verify_signature answer for the same event
VerifyAgrees ==
    /\ Returned("verify") =>
          returned.val = (Event_verify_id(event).ok /\ Event_verify_signature(event).ok)
    /\ Returned("verify_id") =>
          (returned.val.ok /\ Event_verify_signature(event).ok) = Event_verify(event)
    /\ Returned("verify_signature") =>
          (returned.val.ok /\ Event_verify_id(event).ok) = Event_verify(event)

\* C20: verify answers true exactly when verify_id and verify_signature both
\* succeed on the event, and no call changes the event.
C20_VerifyBoth == [](VerifyAgrees) /\ [][event' = event]_vars

\* the id check fails on an event whose signature check succeeds
C20_Witness ==
    /\ Returned("verify_id")
    /\ ~returned.val.ok
    /\ Event_verify_signature(event).ok
    /\ ~Event_verify(event)

----------------------------------------------------------------------------
(* bindings/nostr-ffi/src/util.rs: JsonValue and its conversion to a JSON   *)
(* value (serde_json::Value).  An f64 is a record of its class: a finite    *)
(* number, an infinity or NaN.  A HashMap is a function on its key set.     *)

F64Finite(n) == [class |-> "finite", val |-> n]

F64Nan == [class |-> "nan"]

F64Infinite == [class |-> "infinite"]

\* enum JsonValue
JsonBool(b) == [tag |-> "Bool", bool |-> b]

JsonNumberPosInt(n) == [tag |-> "NumberPosInt", number |-> n]

JsonNumberNegInt(n) == [tag |-> "NumberNegInt", number |-> n]

JsonNumberFloat(x) == [tag |-> "NumberFloat", number |-> x]

JsonStr(str) == [tag |-> "Str", s |-> str]

JsonArray(a) == [tag |-> "Array", array |-> a]

JsonObject(m) == [tag |-> "Object", map |-> m]

JsonNull == [tag |-> "Null"]

\* serde_json::Value
ValueBool(b) == [tag |-> "Bool", bool |-> b]

ValueNumber(n) == [tag |-> "Number", number |-> n]

ValueString(str) == [tag |-> "String", s |-> str]

ValueArray(a) == [tag |-> "Array", array |-> a]

ValueObject(m) == [tag |-> "Object", map |-> m]

ValueNull == [tag |-> "Null"]

\* Number::from_f64: a number for a finite f64, nothing for NaN and the infinities
NumberFromF64(x) == IF x.class = "finite" THEN Some(x) ELSE None

\* impl TryFrom<JsonValue> for Value
RECURSIVE ValueTryFrom(_)
ValueTryFrom(v) ==
    CASE v.tag = "Bool" -> Ok(ValueBool(v.bool))
      [] v.tag = "NumberPosInt" -> Ok(ValueNumber(v.number))
      [] v.tag = "NumberNegInt" -> Ok(ValueNumber(v.number))
      [] v.tag = "NumberFloat" ->
            LET float == NumberFromF64(v.number)
            IN  IF float = None
                THEN Err("Generic(Impossible to convert finite f64 to number)")
                ELSE Ok(ValueNumber(float[1]))
      [] v.tag = "Str" -> Ok(ValueString(v.s))
      [] v.tag = "Array" ->
            \* .filter_map(|v| v.try_into().ok()).collect()
            LET rs   == [i \in 1..Len(v.array) |-> ValueTryFrom(v.array[i])]
                kept == SelectSeq(rs, LAMBDA r : r.ok)
            IN  Ok(ValueArray([i \in 1..Len(kept) |-> kept[i].val]))
      [] v.tag = "Object" ->
            \* .filter_map(|(k, v)| Some((k, v.try_into().ok()?))).collect()
            LET rs == [k \in DOMAIN v.map |-> ValueTryFrom(v.map[k])]
            IN  Ok(ValueObject([k \in {x \in DOMAIN v.map : rs[x].ok} |-> rs[k].val]))
      [] v.tag = "Null" -> Ok(ValueNull)

----------------------------------------------------------------------------
(* The caller of the conversion *)

MaxArray == 2

JsonKeys == {"a", "b"}

\* values without elements of their own
JsonLeaves ==
    { JsonBool(TRUE), JsonNumberPosInt(1), JsonNumberNegInt(-1),
      JsonNumberFloat(F64Finite(2)), JsonNumberFloat(F64Nan),
      JsonNumberFloat(F64Infinite), JsonStr(Str_abc), JsonNull }

\* arrays of up to MaxArray elements and objects over JsonKeys
JsonArraysOf(S) == {JsonArray(a) : a \in UNION {[1..n -> S] : n \in 0..MaxArray}}

JsonObjectsOf(S) == {JsonObject(m) : m \in UNION {[K -> S] : K \in SUBSET JsonKeys}}

\* the elements of the outer arrays and objects: leaves and small containers
JsonInner ==
    { JsonBool(TRUE), JsonNumberFloat(F64Finite(2)), JsonNumberFloat(F64Nan),
      JsonArray(<<>>), JsonArray(<<JsonNumberFloat(F64Nan)>>),
      JsonArray(<<JsonBool(TRUE), JsonNumberFloat(F64Infinite)>>),
      JsonObject([k \in {"a"} |-> JsonNumberFloat(F64Nan)]),
      JsonObject([k \in {"a"} |-> JsonNull]) }

JsonValues == JsonLeaves \cup JsonArraysOf(JsonInner) \cup JsonObjectsOf(JsonInner)

InitJson ==
    /\ pc = "start"
    /\ CodecIdle
    /\ IndexIdle
    /\ EventIdle
    /\ LoopIdle
    /\ JsonIdle
    /\ TagIdle

\* Value::try_from(v)
TryFrom(v) ==
    /\ pc = "start"
    /\ pc' = "converted"
    /\ json' = v
    /\ converted' = ValueTryFrom(v)
    /\ UNCHANGED <<codecVars, indexVars, eventVars, loopVars, tagVars>>

NextJson == \E v \in JsonValues : TryFrom(v)

SpecJson == InitJson /\ [][NextJson]_vars

----------------------------------------------------------------------------
(* Statements about the conversion, checked under SpecJson *)

\* a NaN or an infinity anywhere in a JsonValue
RECURSIVE HasNonFinite(_)
HasNonFinite(v) ==
    CASE v.tag = "NumberFloat" -> v.number.class # "finite"
      [] v.tag = "Array" -> \E i \in 1..Len(v.array) : HasNonFinite(v.array[i])
      [] v.tag = "Object" -> \E k \in DOMAIN v.map : HasNonFinite(v.map[k])
      [] OTHER -> FALSE

\* every array of the JSON value has the length of the array it was made from
\* and every object its key set, at every depth
RECURSIVE SameShape(_, _)
SameShape(v, out) ==
    CASE v.tag = "Array" ->
            /\ out.tag = "Array"
            /\ Len(out.array) = Len(v.array)
            /\ \A i \in 1..Len(v.array) : SameShape(v.array[i], out.array[i])
      [] v.tag = "Object" ->
            /\ out.tag = "Object"
            /\ DOMAIN out.map = DOMAIN v.map
            /\ \A k \in DOMAIN v.map : SameShape(v.map[k], out.map[k])
      [] OTHER -> out.tag \notin {"Array", "Object"}

\* C23: the conversion is all-or-nothing at every depth: when it succeeds every
\* array of the result has the length and order of the input array and every
\* object the input's key set, and a NaN or infinite NumberFloat anywhere in
\* the input, nested or not, makes the whole conversion fail.
C23_ConversionAllOrNothing ==
    pc = "converted" =>
        /\ converted.ok => SameShape(json, converted.val)
        /\ HasNonFinite(json) => ~converted.ok

----------------------------------------------------------------------------
(* bindings/nostr-ffi/src/event/tag.rs: the enums of the binding and of the *)
(* core (nostr::event::tag) and the conversions between them.  A value of  *)
(* an enum is a record of its variant's name and payload.  A match over    *)
(* unit variants is the set of its arms, each the pair of the names of its  *)
(* pattern and of its result.                                               *)

\* the result of the arm of a match whose pattern is pat
Arm(arms, pat) == (CHOOSE a \in arms : a[1] = pat)[2]

\* a variant without payload
Unit(name) == [tag |-> name]

\* enum TagKind of the binding
TagKindKnown(known) == [tag |-> "Known", known |-> known]

TagKindUnknown(unknown) == [tag |-> "Unknown", unknown |-> unknown]

\* tag::TagKind::Custom of the core; every other core kind is a unit variant
TagKindCustom(custom) == [tag |-> "Custom", custom |-> custom]

\* the arms of impl From<tag::TagKind> for TagKind, core kind first
TagKindFromArms ==
    {
      <<"P", "P">>, <<"E", "E">>, <<"R", "R">>, <<"T", "T">>, <<"G", "G">>,
      <<"D", "D">>, <<"A", "A">>, <<"I", "I">>, <<"M", "M">>, <<"U", "U">>,
      <<"X", "X">>, <<"Relay", "RelayUrl">>, <<"Nonce", "Nonce">>,
      <<"Delegation", "Delegation">>, <<"ContentWarning", "ContentWarning">>,
      <<"Expiration", "Expiration">>, <<"Subject", "Subject">>,
      <<"Challenge", "Challenge">>, <<"Title", "Title">>, <<"Image", "Image">>,
      <<"Thumb", "Thumb">>, <<"Summary", "Summary">>, <<"PublishedAt", "PublishedAt">>,
      <<"Description", "Description">>, <<"Bolt11", "Bolt11">>,
      <<"Preimage", "Preimage">>, <<"Relays", "Relays">>, <<"Amount", "Amount">>,
      <<"Lnurl", "Lnurl">>, <<"Name", "Name">>, <<"Url", "Url">>,
      <<"Aes256Gcm", "Aes256Gcm">>, <<"Size", "Size">>, <<"Dim", "Dim">>,
      <<"Magnet", "Magnet">>, <<"Blurhash", "Blurhash">>, <<"Streaming", "Streaming">>,
      <<"Recording", "Recording">>, <<"Starts", "Starts">>, <<"Ends", "Ends">>,
      <<"Status", "Status">>, <<"CurrentParticipants", "CurrentParticipants">>,
      <<"TotalParticipants", "TotalParticipants">>, <<"Method", "Method">>,
      <<"Payload", "Payload">>, <<"Anon", "Anon">>, <<"Proxy", "Proxy">>,
      <<"Emoji", "Emoji">>, <<"Request", "Request">> }

\* the conversion with the arm of Relay written to another known kind
TagKindFromRelayAsRelays(x) ==
    IF x.tag # "Custom"
    THEN TagKindKnown(IF x.tag = "Relay" THEN "Relays" ELSE Arm(TagKindFromArms, x.tag))
    ELSE TagKindUnknown(x.custom)

\* impl From<tag::TagKind> for TagKind
TagKindFrom(x) ==
    IF x.tag # "Custom"
    THEN TagKindKnown(Arm(TagKindFromArms, x.tag))
    ELSE TagKindUnknown(x.custom)

\* the arms of impl From<TagKind> for tag::TagKind, known kind first
TagKindIntoArms ==
    {
      <<"P", "P">>, <<"E", "E">>, <<"R", "R">>, <<"T", "T">>, <<"G", "G">>,
      <<"D", "D">>, <<"A", "A">>, <<"I", "I">>, <<"M", "M">>, <<"U", "U">>,
      <<"X", "X">>, <<"RelayUrl", "Relay">>, <<"Nonce", "Nonce">>,
      <<"Delegation", "Delegation">>, <<"ContentWarning", "ContentWarning">>,
      <<"Expiration", "Expiration">>, <<"Subject", "Subject">>,
      <<"Challenge", "Challenge">>, <<"Title", "Title">>, <<"Image", "Image">>,
      <<"Thumb", "Thumb">>, <<"Summary", "Summary">>, <<"PublishedAt", "PublishedAt">>,
      <<"Description", "Description">>, <<"Bolt11", "Bolt11">>,
      <<"Preimage", "Preimage">>, <<"Relays", "Relays">>, <<"Amount", "Amount">>,
      <<"Lnurl", "Lnurl">>, <<"Name", "Name">>, <<"Url", "Url">>,
      <<"Aes256Gcm", "Aes256Gcm">>, <<"Size", "Size">>, <<"Dim", "Dim">>,
      <<"Magnet", "Magnet">>, <<"Blurhash", "Blurhash">>, <<"Streaming", "Streaming">>,
      <<"Recording", "Recording">>, <<"Starts", "Starts">>, <<"Ends", "Ends">>,
      <<"Status", "Status">>, <<"CurrentParticipants", "CurrentParticipants">>,
      <<"TotalParticipants", "TotalParticipants">>, <<"Method", "Method">>,
      <<"Payload", "Payload">>, <<"Anon", "Anon">>, <<"Proxy", "Proxy">>,
      <<"Emoji", "Emoji">>, <<"Request", "Request">> }

\* impl From<TagKind> for tag::TagKind
TagKindInto(x) ==
    IF x.tag = "Known" THEN Unit(Arm(TagKindIntoArms, x.known))
    ELSE TagKindCustom(x.unknown)

\* enum Marker, of the binding and of the core
MarkerCustom(custom) == [tag |-> "Custom", custom |-> custom]

\* impl From<Marker> for tag::Marker
MarkerInto(x) ==
    IF x.tag # "Custom" THEN Unit(Arm({<<"Root", "Root">>, <<"Reply", "Reply">>}, x.tag))
    ELSE MarkerCustom(x.custom)

\* impl From<tag::Marker> for Marker
MarkerFrom(x) ==
    IF x.tag # "Custom" THEN Unit(Arm({<<"Root", "Root">>, <<"Reply", "Reply">>}, x.tag))
    ELSE MarkerCustom(x.custom)

\* impl From<Report> for tag::Report
ReportInto(x) ==
    Unit(Arm({<<"Nudity", "Nudity">>, <<"Profanity", "Profanity">>, <<"Illegal", "Illegal">>,
         <<"Spam", "Spam">>, <<"Impersonation", "Impersonation">>}, x.tag))

\* impl From<tag::Report> for Report
ReportFrom(x) ==
    Unit(Arm({<<"Nudity", "Nudity">>, <<"Profanity", "Profanity">>, <<"Illegal", "Illegal">>,
         <<"Spam", "Spam">>, <<"Impersonation", "Impersonation">>}, x.tag))

\* impl From<HttpMethod> for tag::HttpMethod
HttpMethodInto(x) ==
    Unit(Arm({<<"Get", "GET">>, <<"Post", "POST">>, <<"Put", "PUT">>, <<"Patch", "PATCH">>}, x.tag))

\* impl From<tag::HttpMethod> for HttpMethod
HttpMethodFrom(x) ==
    Unit(Arm({<<"GET", "Get">>, <<"POST", "Post">>, <<"PUT", "Put">>, <<"PATCH", "Patch">>}, x.tag))

\* impl From<RelayMetadata> for nostr::RelayMetadata
RelayMetadataInto(x) == Unit(Arm({<<"Read", "Read">>, <<"Write", "Write">>}, x.tag))

\* impl From<nostr::RelayMetadata> for RelayMetadata
RelayMetadataFrom(x) == Unit(Arm({<<"Read", "Read">>, <<"Write", "Write">>}, x.tag))

\* impl From<ExternalIdentity> for tag::ExternalIdentity
ExternalIdentityInto(x) ==
    Unit(Arm({<<"GitHub", "GitHub">>, <<"Twitter", "Twitter">>, <<"Mastodon", "Mastodon">>,
         <<"Telegram", "Telegram">>}, x.tag))

\* impl From<tag::ExternalIdentity> for ExternalIdentity
ExternalIdentityFrom(x) ==
    Unit(Arm({<<"GitHub", "GitHub">>, <<"Twitter", "Twitter">>, <<"Mastodon", "Mastodon">>,
         <<"Telegram", "Telegram">>}, x.tag))

\* struct Identity, of the binding and of the core
Identity(platform, ident, proof) == [platform |-> platform, ident |-> ident, proof |-> proof]

\* impl From<Identity> for tag::Identity
IdentityInto(x) == Identity(ExternalIdentityInto(x.platform), x.ident, x.proof)

\* impl From<tag::Identity> for Identity
IdentityFrom(x) == Identity(ExternalIdentityFrom(x.platform), x.ident, x.proof)

\* x.into(), for a x of the enum named ty of the binding
IntoCore(ty, x) ==
    CASE ty = "TagKind" -> TagKindInto(x)
      [] ty = "Marker" -> MarkerInto(x)
      [] ty = "Report" -> ReportInto(x)
      [] ty = "HttpMethod" -> HttpMethodInto(x)
      [] ty = "RelayMetadata" -> RelayMetadataInto(x)
      [] ty = "ExternalIdentity" -> ExternalIdentityInto(x)

\* x.into(), for a x of the enum named ty of the core
FromCore(ty, x) ==
    CASE ty = "TagKind" -> TagKindFrom(x)
      [] ty = "Marker" -> MarkerFrom(x)
      [] ty = "Report" -> ReportFrom(x)
      [] ty = "HttpMethod" -> HttpMethodFrom(x)
      [] ty = "RelayMetadata" -> RelayMetadataFrom(x)
      [] ty = "ExternalIdentity" -> ExternalIdentityFrom(x)

----------------------------------------------------------------------------
(* The caller of the enum conversions: a x of the binding goes to the   *)
(* core and back, a x of the core to the binding and back               *)

EnumTypes == {"TagKind", "Marker", "Report", "HttpMethod", "RelayMetadata", "ExternalIdentity"}

\* the names of the variants of enum TagKindKnown
TagKindKnownNames == {a[1] : a \in TagKindIntoArms}

\* the names of the unit variants of tag::TagKind
CoreTagKindNames == {a[1] : a \in TagKindFromArms}

\* strings a Custom or Unknown variant may carry: free text and known names
CustomStrings == {Str_abc, Str_p, <<>>}

\* the values of the enum named ty of the binding
BindingValues(ty) ==
    CASE ty = "TagKind" ->
            {TagKindKnown(k) : k \in TagKindKnownNames}
                \cup {TagKindUnknown(u) : u \in CustomStrings}
      [] ty = "Marker" -> {Unit("Root"), Unit("Reply")} \cup {MarkerCustom(c) : c \in CustomStrings}
      [] ty = "Report" -> {Unit(n) : n \in {"Nudity", "Profanity", "Illegal", "Spam", "Impersonation"}}
      [] ty = "HttpMethod" -> {Unit(n) : n \in {"Get", "Post", "Put", "Patch"}}
      [] ty = "RelayMetadata" -> {Unit(n) : n \in {"Read", "Write"}}
      [] ty = "ExternalIdentity" -> {Unit(n) : n \in {"GitHub", "Twitter", "Mastodon", "Telegram"}}

\* the values of the enum named ty of the core
CoreValues(ty) ==
    CASE ty = "TagKind" ->
            {Unit(k) : k \in CoreTagKindNames}
                \cup {TagKindCustom(c) : c \in CustomStrings}
      [] ty = "Marker" -> {Unit("Root"), Unit("Reply")} \cup {MarkerCustom(c) : c \in CustomStrings}
      [] ty = "Report" -> {Unit(n) : n \in {"Nudity", "Profanity", "Illegal", "Spam", "Impersonation"}}
      [] ty = "HttpMethod" -> {Unit(n) : n \in {"GET", "POST", "PUT", "PATCH"}}
      [] ty = "RelayMetadata" -> {Unit(n) : n \in {"Read", "Write"}}
      [] ty = "ExternalIdentity" -> {Unit(n) : n \in {"GitHub", "Twitter", "Mastodon", "Telegram"}}

InitKind ==
    /\ pc = "start"
    /\ CodecIdle
    /\ IndexIdle
    /\ EventIdle
    /\ LoopIdle
    /\ JsonIdle
    /\ TagIdle

\* a x of the binding is converted to the core
ConvertInto(ty, v) ==
    /\ pc = "start"
    /\ pc' = "there"
    /\ tagenum' = [type |-> ty, side |-> "binding", value |-> v]
    /\ shown' = IntoCore(ty, v)
    /\ UNCHANGED <<fields, made, prev, codecVars, indexVars, eventVars, loopVars, jsonVars>>

\* a x of the core is converted to the binding
ConvertFrom(ty, v) ==
    /\ pc = "start"
    /\ pc' = "there"
    /\ tagenum' = [type |-> ty, side |-> "core", value |-> v]
    /\ shown' = FromCore(ty, v)
    /\ UNCHANGED <<fields, made, prev, codecVars, indexVars, eventVars, loopVars, jsonVars>>

\* what the conversion returned is converted by the opposite conversion
ConvertBack ==
    /\ pc = "there"
    /\ pc' = "back"
    /\ shown' = IF tagenum.side = "binding" THEN FromCore(tagenum.type, shown)
                 ELSE IntoCore(tagenum.type, shown)
    /\ prev' = shown
    /\ UNCHANGED <<fields, tagenum, made, codecVars, indexVars, eventVars, loopVars, jsonVars>>

NextKind ==
    \/ \E ty \in EnumTypes : \E v \in BindingValues(ty) : ConvertInto(ty, v)
    \/ \E ty \in EnumTypes : \E v \in CoreValues(ty) : ConvertFrom(ty, v)
    \/ ConvertBack

SpecKind == InitKind /\ [][NextKind]_vars

----------------------------------------------------------------------------
(* Statements about the enum conversions, checked under SpecKind *)

\* C29: the conversions of TagKind between the binding and the core are
\* mutual inverses: a known kind of the binding goes to a core kind and back to
\* itself (RelayUrl pairs with Relay), an Unknown string goes to Custom with
\* the same string and back, and no two kinds go to one kind; the same holds
\* for Marker, Report, HttpMethod, RelayMetadata and ExternalIdentity.
C29_KindConversionsInverse ==
    /\ pc = "there" =>
          LET ty == tagenum.type
          IN  /\ tagenum.side = "binding" =>
                    /\ shown \in CoreValues(ty)
                    /\ \A w \in BindingValues(ty) :
                          w # tagenum.value => IntoCore(ty, w) # shown
              /\ tagenum.side = "core" =>
                    /\ shown \in BindingValues(ty)
                    /\ \A w \in CoreValues(ty) :
                          w # tagenum.value => FromCore(ty, w) # shown
              /\ tagenum = [type |-> "TagKind", side |-> "binding",
                            value |-> TagKindKnown("RelayUrl")] => shown = Unit("Relay")
              /\ (ty = "TagKind" /\ tagenum.side = "binding"
                    /\ tagenum.value.tag = "Unknown")
                    => shown = TagKindCustom(tagenum.value.unknown)
    /\ pc = "back" => shown = tagenum.value

\* the Unknown kind that carries the name of a known kind went to Custom and
\* came back
C29_Witness ==
    /\ pc = "back"
    /\ tagenum.type = "TagKind"
    /\ tagenum.value = TagKindUnknown(Str_p)
    /\ prev = TagKindCustom(Str_p)
    /\ shown = tagenum.value

----------------------------------------------------------------------------
(* bindings/nostr-ffi/src/event/tag.rs: TagEnum, the conversions between   *)
(* TagEnum and the core tag::Tag, and the Tag object.  The typed forms of  *)
(* the parsed sub-fields belong to other crates; each is written by what   *)
(* its from_str accepts and what its to_string prints.                     *)

\* Option::map
MapOption(opt, F(_)) == IF opt = None THEN None ELSE Some(F(opt[1]))

\* iter().map(f).collect()
MapSeq(xs, F(_)) == [i \in 1..Len(xs) |-> F(xs[i])]

\* UncheckedUrl::from(String): the string is kept as it is
UncheckedUrlFrom(str) == [url |-> str]

\* UncheckedUrl::to_string
UncheckedUrlToString(u) == u.url

\* Kind::from(u64)
KindFromU64(n) == n

\* Kind::as_u64
KindAsU64(kind) == kind

\* u64 as usize, on a 64-bit target
AsUsize(n) == n

\* usize as u64
AsU64(n) == n

IsDigit(c) == c \in 48..57

\* the value of a hexadecimal digit of either case, -1 for any other byte
HexVal(c) ==
    IF c \in 48..57 THEN c - 48
    ELSE IF c \in 97..102 THEN c - 87
    ELSE IF c \in 65..70 THEN c - 55
    ELSE 0 - 1

\* the bytes a hexadecimal text of either case stands for
FromHex(str) ==
    IF Len(str) % 2 = 1 \/ \E i \in 1..Len(str) : HexVal(str[i]) < 0
    THEN Err("Generic")
    ELSE Ok([i \in 1..(Len(str) \div 2) |->
                16 * HexVal(str[2 * i - 1]) + HexVal(str[2 * i])])

\* Signature::from_str: the hexadecimal text of the 64 bytes of a signature
SignatureFromStr(str) ==
    LET bytes == FromHex(str)
    IN  IF bytes.ok /\ Len(bytes.val) = 64 THEN Ok([sig |-> bytes.val])
        ELSE Err("Generic")

\* Signature::to_string: lower-case hexadecimal
SignatureToString(s) == ToHex(s.sig)

\* Sha256Hash::from_str: the hexadecimal text of the 32 bytes of a digest
Sha256HashFromStr(str) ==
    LET bytes == FromHex(str)
    IN  IF bytes.ok /\ Len(bytes.val) = 32 THEN Ok([hash |-> bytes.val])
        ELSE Err("Generic")

\* Sha256Hash::to_string: lower-case hexadecimal
Sha256HashToString(h) == ToHex(h.hash)

RECURSIVE DecimalValue(_)
\* the number a sequence of decimal digits stands for
DecimalValue(digits) ==
    IF digits = <<>> THEN 0
    ELSE 10 * DecimalValue(SubSeq(digits, 1, Len(digits) - 1))
            + (digits[Len(digits)] - 48)

\* str::parse::<u128>: an optional plus sign, then one digit or more; the
\* texts of the model are too short to exceed the range
U128Parse(str) ==
    LET digits == IF str # <<>> /\ str[1] = 43 THEN Tail(str) ELSE str
    IN  IF digits = <<>> \/ \E i \in 1..Len(digits) : ~IsDigit(digits[i])
        THEN Err("Generic")
        ELSE Ok(DecimalValue(digits))

RECURSIVE U128ToString(_)
\* u128::to_string: decimal digits without a sign or a leading zero
U128ToString(n) ==
    IF n < 10 THEN <<48 + n>> ELSE U128ToString(n \div 10) \o <<48 + (n % 10)>>

\* the position of the first byte c of str at or after position i, 0 if none
RECURSIVE Find(_, _, _)
Find(str, c, i) ==
    IF i > Len(str) THEN 0 ELSE IF str[i] = c THEN i ELSE Find(str, c, i + 1)

IsLower(c) == c \in 97..122

\* Url::parse of a text in lower-case ASCII without port, user, query or
\* fragment: a scheme is required, `scheme://` requires a host, and an
\* empty path is written as `/`
UrlParse(str) ==
    LET colon == Find(str, 58, 1)
        slashes == /\ colon > 0
                   /\ Len(str) >= colon + 2
                   /\ str[colon + 1] = 47
                   /\ str[colon + 2] = 47
        path == IF slashes THEN Find(str, 47, colon + 3) ELSE 0
    IN  IF colon <= 1 \/ \E i \in 1..(colon - 1) : ~IsLower(str[i])
        THEN Err("Generic")
        ELSE IF ~slashes THEN Ok([serialization |-> str])
        ELSE IF Len(str) = colon + 2 \/ path = colon + 3 THEN Err("Generic")
        ELSE IF path = 0 THEN Ok([serialization |-> str \o <<47>>])
        ELSE Ok([serialization |-> str])

\* Url::to_string
UrlToString(u) == u.serialization

\* the text `kind=`
Str_kind_eq == <<107, 105, 110, 100, 61>>

\* Conditions::from_str of a text with at most one condition: the empty
\* text has no condition, `kind=<digits>` has one
ConditionsFromStr(str) ==
    IF str = <<>> THEN Ok([conditions |-> <<>>])
    ELSE IF /\ Len(str) > Len(Str_kind_eq)
            /\ SubSeq(str, 1, Len(Str_kind_eq)) = Str_kind_eq
            /\ \A i \in (Len(Str_kind_eq) + 1)..Len(str) : IsDigit(str[i])
         THEN Ok([conditions |->
                    <<[kind |-> DecimalValue(SubSeq(str, Len(Str_kind_eq) + 1,
                                                    Len(str)))]>>])
    ELSE Err("Generic")

\* Conditions::to_string
ConditionsToString(c) ==
    IF c.conditions = <<>> THEN <<>>
    ELSE Str_kind_eq \o U128ToString(c.conditions[1].kind)

\* the conversions of LiveEventMarker, LiveEventStatus, Protocol,
\* DataVendingMachineStatus and ImageDimensions: each variant and each field
\* goes to the one of the same name
LiveEventMarkerInto(x) == x

LiveEventMarkerFrom(x) == x

LiveEventStatusInto(x) == x

LiveEventStatusFrom(x) == x

ProtocolInto(x) == x

ProtocolFrom(x) == x

DataVendingMachineStatusInto(x) == x

DataVendingMachineStatusFrom(x) == x

ImageDimensionsInto(x) == [width |-> x.width, height |-> x.height]

ImageDimensionsFrom(x) == [width |-> x.width, height |-> x.height]

\* the proof that fails to parse is left out, the tag is made without it
ProofIntoDropsBadProof(proof) ==
    IF proof = None \/ ~SignatureFromStr(proof[1]).ok THEN Ok(None)
    ELSE Ok(Some(SignatureFromStr(proof[1]).val))

\* match proof { Some(proof) => Some(Signature::from_str(&proof)?), None => None }
ProofInto(proof) ==
    IF proof = None THEN Ok(None)
    ELSE IF ~SignatureFromStr(proof[1]).ok THEN Err(SignatureFromStr(proof[1]).err)
    ELSE Ok(Some(SignatureFromStr(proof[1]).val))

\* impl TryFrom<TagEnum> for tag::Tag: the arms in the order of the source;
\* a sub-field parsed with `?` returns its error in place of the tag
TagEnumInto(e) ==
    CASE e.variant = "Unknown" ->
            Ok([variant |-> "Generic", kind |-> TagKindInto(e.kind),
                data |-> e.data])
      [] e.variant = "Event" ->
            Ok([variant |-> "Event", event_id |-> e.event_id.inner,
                relay_url |-> MapOption(e.relay_url, UncheckedUrlFrom),
                marker |-> MapOption(e.marker, MarkerInto)])
      [] e.variant = "PublicKey" ->
            Ok([variant |-> "PublicKey", public_key |-> e.public_key.inner,
                relay_url |-> MapOption(e.relay_url, UncheckedUrlFrom),
                alias |-> e.alias])
      [] e.variant = "EventReport" ->
            Ok([variant |-> "EventReport", id |-> e.event_id.inner,
                report |-> ReportInto(e.report)])
      [] e.variant = "PubKeyReport" ->
            Ok([variant |-> "PubKeyReport", pk |-> e.public_key.inner,
                report |-> ReportInto(e.report)])
      [] e.variant = "PubKeyLiveEvent" ->
            LET proof_ == ProofInto(e.proof)
            IN  IF ~proof_.ok THEN Err(proof_.err)
                ELSE Ok([variant |-> "PubKeyLiveEvent",
                         public_key |-> e.public_key.inner,
                         relay_url |-> MapOption(e.relay_url, UncheckedUrlFrom),
                         marker |-> LiveEventMarkerInto(e.marker),
                         proof |-> proof_.val])
      [] e.variant = "Reference" ->
            Ok([variant |-> "Reference", r |-> e.reference])
      [] e.variant = "RelayMetadata" ->
            Ok([variant |-> "RelayMetadata",
                url |-> UncheckedUrlFrom(e.relay_url),
                rw |-> MapOption(e.rw, RelayMetadataInto)])
      [] e.variant = "Hashtag" ->
            Ok([variant |-> "Hashtag", hashtag |-> e.hashtag])
      [] e.variant = "Geohash" ->
            Ok([variant |-> "Geohash", g |-> e.geohash])
      [] e.variant = "Identifier" ->
            Ok([variant |-> "Identifier", d |-> e.identifier])
      [] e.variant = "ExternalIdentity" ->
            Ok([variant |-> "ExternalIdentity",
                identity |-> IdentityInto(e.identity)])
      [] e.variant = "A" ->
            Ok([variant |-> "A", kind |-> KindFromU64(e.kind),
                public_key |-> e.public_key.inner,
                identifier |-> e.identifier,
                relay_url |-> MapOption(e.relay_url, UncheckedUrlFrom)])
      [] e.variant = "RelayUrl" ->
            Ok([variant |-> "Relay", url |-> UncheckedUrlFrom(e.relay_url)])
      [] e.variant = "POW" ->
            LET nonce_ == U128Parse(e.nonce)
            IN  IF ~nonce_.ok THEN Err(nonce_.err)
                ELSE Ok([variant |-> "POW", nonce |-> nonce_.val,
                         difficulty |-> e.difficulty])
      [] e.variant = "Delegation" ->
            LET conditions_ == ConditionsFromStr(e.conditions)
                sig_ == SignatureFromStr(e.sig)
            IN  IF ~conditions_.ok THEN Err(conditions_.err)
                ELSE IF ~sig_.ok THEN Err(sig_.err)
                ELSE Ok([variant |-> "Delegation",
                         delegator |-> e.delegator.inner,
                         conditions |-> conditions_.val, sig |-> sig_.val])
      [] e.variant = "ContentWarning" ->
            Ok([variant |-> "ContentWarning", reason |-> e.reason])
      [] e.variant = "Expiration" ->
            Ok([variant |-> "Expiration", timestamp |-> e.timestamp.inner])
      [] e.variant = "Subject" ->
            Ok([variant |-> "Subject", sub |-> e.subject])
      [] e.variant = "Challenge" ->
            Ok([variant |-> "Challenge", challenge |-> e.challenge])
      [] e.variant = "Title" ->
            Ok([variant |-> "Title", title |-> e.title])
      [] e.variant = "Image" ->
            Ok([variant |-> "Image", image |-> UncheckedUrlFrom(e.url),
                dimensions |-> MapOption(e.dimensions, ImageDimensionsInto)])
      [] e.variant = "Thumb" ->
            Ok([variant |-> "Thumb", thumb |-> UncheckedUrlFrom(e.url),
                dimensions |-> MapOption(e.dimensions, ImageDimensionsInto)])
      [] e.variant = "Summary" ->
            Ok([variant |-> "Summary", summary |-> e.summary])
      [] e.variant = "Description" ->
            Ok([variant |-> "Description", description |-> e.desc])
      [] e.variant = "Bolt11" ->
            Ok([variant |-> "Bolt11", bolt11 |-> e.bolt11])
      [] e.variant = "Preimage" ->
            Ok([variant |-> "Preimage", preimage |-> e.preimage])
      [] e.variant = "Relays" ->
            Ok([variant |-> "Relays",
                relays |-> MapSeq(e.urls, UncheckedUrlFrom)])
      [] e.variant = "Amount" ->
            Ok([variant |-> "Amount", millisats |-> e.millisats,
                bolt11 |-> e.bolt11])
      [] e.variant = "Lnurl" ->
            Ok([variant |-> "Lnurl", lnurl |-> e.lnurl])
      [] e.variant = "Name" ->
            Ok([variant |-> "Name", name |-> e.name])
      [] e.variant = "PublishedAt" ->
            Ok([variant |-> "PublishedAt", timestamp |-> e.timestamp.inner])
      [] e.variant = "Url" ->
            LET url_ == UrlParse(e.url)
            IN  IF ~url_.ok THEN Err(url_.err)
                ELSE Ok([variant |-> "Url", url |-> url_.val])
      [] e.variant = "MimeType" ->
            Ok([variant |-> "MimeType", mime |-> e.mime])
      [] e.variant = "Aes256Gcm" ->
            Ok([variant |-> "Aes256Gcm", key |-> e.key, iv |-> e.iv])
      [] e.variant = "Sha256" ->
            LET hash_ == Sha256HashFromStr(e.hash)
            IN  IF ~hash_.ok THEN Err(hash_.err)
                ELSE Ok([variant |-> "Sha256", hash |-> hash_.val])
      [] e.variant = "Size" ->
            Ok([variant |-> "Size", bytes |-> AsUsize(e.size)])
      [] e.variant = "Dim" ->
            Ok([variant |-> "Dim", dim |-> ImageDimensionsInto(e.dimensions)])
      [] e.variant = "Magnet" ->
            Ok([variant |-> "Magnet", uri |-> e.uri])
      [] e.variant = "Blurhash" ->
            Ok([variant |-> "Blurhash", data |-> e.blurhash])
      [] e.variant = "Streaming" ->
            Ok([variant |-> "Streaming", url |-> UncheckedUrlFrom(e.url)])
      [] e.variant = "Recording" ->
            Ok([variant |-> "Recording", url |-> UncheckedUrlFrom(e.url)])
      [] e.variant = "Starts" ->
            Ok([variant |-> "Starts", timestamp |-> e.timestamp.inner])
      [] e.variant = "Ends" ->
            Ok([variant |-> "Ends", timestamp |-> e.timestamp.inner])
      [] e.variant = "LiveEventStatus" ->
            Ok([variant |-> "LiveEventStatus",
                s |-> LiveEventStatusInto(e.status)])
      [] e.variant = "CurrentParticipants" ->
            Ok([variant |-> "CurrentParticipants", num |-> e.num])
      [] e.variant = "TotalParticipants" ->
            Ok([variant |-> "CurrentParticipants", num |-> e.num])
      [] e.variant = "AbsoluteURL" ->
            Ok([variant |-> "AbsoluteURL", url |-> UncheckedUrlFrom(e.url)])
      [] e.variant = "Method" ->
            Ok([variant |-> "Method", method |-> HttpMethodInto(e.method)])
      [] e.variant = "Payload" ->
            LET hash_ == Sha256HashFromStr(e.hash)
            IN  IF ~hash_.ok THEN Err(hash_.err)
                ELSE Ok([variant |-> "Payload", p |-> hash_.val])
      [] e.variant = "Anon" ->
            Ok([variant |-> "Anon", msg |-> e.msg])
      [] e.variant = "Proxy" ->
            Ok([variant |-> "Proxy", id |-> e.id,
                protocol |-> ProtocolInto(e.protocol)])
      [] e.variant = "Emoji" ->
            Ok([variant |-> "Emoji", shortcode |-> e.shortcode,
                url |-> UncheckedUrlFrom(e.url)])
      [] e.variant = "Request" ->
            Ok([variant |-> "Request", event |-> e.event.inner])
      [] e.variant = "DataVendingMachineStatus" ->
            Ok([variant |-> "DataVendingMachineStatus",
                status |-> DataVendingMachineStatusInto(e.status),
                extra_info |-> e.extra_info])

\* impl From<tag::Tag> for TagEnum: the arms in the order of the source
TagEnumFrom(t) ==
    CASE t.variant = "Generic" ->
            [variant |-> "Unknown", kind |-> TagKindFrom(t.kind),
             data |-> t.data]
      [] t.variant = "Event" ->
            [variant |-> "Event", event_id |-> FfiEventId(t.event_id),
             relay_url |-> MapOption(t.relay_url, UncheckedUrlToString),
             marker |-> MapOption(t.marker, MarkerFrom)]
      [] t.variant = "PublicKey" ->
            [variant |-> "PublicKey",
             public_key |-> FfiPublicKey(t.public_key),
             relay_url |-> MapOption(t.relay_url, UncheckedUrlToString),
             alias |-> t.alias]
      [] t.variant = "EventReport" ->
            [variant |-> "EventReport", event_id |-> FfiEventId(t.id),
             report |-> ReportFrom(t.report)]
      [] t.variant = "PubKeyReport" ->
            [variant |-> "PubKeyReport", public_key |-> FfiPublicKey(t.pk),
             report |-> ReportFrom(t.report)]
      [] t.variant = "PubKeyLiveEvent" ->
            [variant |-> "PubKeyLiveEvent",
             public_key |-> FfiPublicKey(t.public_key),
             relay_url |-> MapOption(t.relay_url, UncheckedUrlToString),
             marker |-> LiveEventMarkerFrom(t.marker),
             proof |-> MapOption(t.proof, SignatureToString)]
      [] t.variant = "Reference" ->
            [variant |-> "Reference", reference |-> t.r]
      [] t.variant = "RelayMetadata" ->
            [variant |-> "RelayMetadata",
             relay_url |-> UncheckedUrlToString(t.url),
             rw |-> MapOption(t.rw, RelayMetadataFrom)]
      [] t.variant = "Hashtag" ->
            [variant |-> "Hashtag", hashtag |-> t.hashtag]
      [] t.variant = "Geohash" ->
            [variant |-> "Geohash", geohash |-> t.g]
      [] t.variant = "Identifier" ->
            [variant |-> "Identifier", identifier |-> t.d]
      [] t.variant = "A" ->
            [variant |-> "A", kind |-> KindAsU64(t.kind),
             public_key |-> FfiPublicKey(t.public_key),
             identifier |-> t.identifier,
             relay_url |-> MapOption(t.relay_url, UncheckedUrlToString)]
      [] t.variant = "ExternalIdentity" ->
            [variant |-> "ExternalIdentity",
             identity |-> IdentityFrom(t.identity)]
      [] t.variant = "Relay" ->
            [variant |-> "RelayUrl",
             relay_url |-> UncheckedUrlToString(t.url)]
      [] t.variant = "POW" ->
            [variant |-> "POW", nonce |-> U128ToString(t.nonce),
             difficulty |-> t.difficulty]
      [] t.variant = "Delegation" ->
            [variant |-> "Delegation",
             delegator |-> FfiPublicKey(t.delegator),
             conditions |-> ConditionsToString(t.conditions),
             sig |-> SignatureToString(t.sig)]
      [] t.variant = "ContentWarning" ->
            [variant |-> "ContentWarning", reason |-> t.reason]
      [] t.variant = "Expiration" ->
            [variant |-> "Expiration",
             timestamp |-> FfiTimestamp(t.timestamp)]
      [] t.variant = "Subject" ->
            [variant |-> "Subject", subject |-> t.sub]
      [] t.variant = "Challenge" ->
            [variant |-> "Challenge", challenge |-> t.challenge]
      [] t.variant = "Title" ->
            [variant |-> "Title", title |-> t.title]
      [] t.variant = "Image" ->
            [variant |-> "Image", url |-> UncheckedUrlToString(t.image),
             dimensions |-> MapOption(t.dimensions, ImageDimensionsFrom)]
      [] t.variant = "Thumb" ->
            [variant |-> "Thumb", url |-> UncheckedUrlToString(t.thumb),
             dimensions |-> MapOption(t.dimensions, ImageDimensionsFrom)]
      [] t.variant = "Summary" ->
            [variant |-> "Summary", summary |-> t.summary]
      [] t.variant = "PublishedAt" ->
            [variant |-> "PublishedAt",
             timestamp |-> FfiTimestamp(t.timestamp)]
      [] t.variant = "Description" ->
            [variant |-> "Description", desc |-> t.description]
      [] t.variant = "Bolt11" ->
            [variant |-> "Bolt11", bolt11 |-> t.bolt11]
      [] t.variant = "Preimage" ->
            [variant |-> "Preimage", preimage |-> t.preimage]
      [] t.variant = "Relays" ->
            [variant |-> "Relays",
             urls |-> MapSeq(t.relays, UncheckedUrlToString)]
      [] t.variant = "Amount" ->
            [variant |-> "Amount", millisats |-> t.millisats,
             bolt11 |-> t.bolt11]
      [] t.variant = "Name" ->
            [variant |-> "Name", name |-> t.name]
      [] t.variant = "Lnurl" ->
            [variant |-> "Lnurl", lnurl |-> t.lnurl]
      [] t.variant = "Url" ->
            [variant |-> "Url", url |-> UrlToString(t.url)]
      [] t.variant = "MimeType" ->
            [variant |-> "MimeType", mime |-> t.mime]
      [] t.variant = "Aes256Gcm" ->
            [variant |-> "Aes256Gcm", key |-> t.key, iv |-> t.iv]
      [] t.variant = "Sha256" ->
            [variant |-> "Sha256", hash |-> Sha256HashToString(t.hash)]
      [] t.variant = "Size" ->
            [variant |-> "Size", size |-> AsU64(t.bytes)]
      [] t.variant = "Dim" ->
            [variant |-> "Dim", dimensions |-> ImageDimensionsFrom(t.dim)]
      [] t.variant = "Magnet" ->
            [variant |-> "Magnet", uri |-> t.uri]
      [] t.variant = "Blurhash" ->
            [variant |-> "Blurhash", blurhash |-> t.data]
      [] t.variant = "Streaming" ->
            [variant |-> "Streaming", url |-> UncheckedUrlToString(t.url)]
      [] t.variant = "Recording" ->
            [variant |-> "Recording", url |-> UncheckedUrlToString(t.url)]
      [] t.variant = "Starts" ->
            [variant |-> "Starts", timestamp |-> FfiTimestamp(t.timestamp)]
      [] t.variant = "Ends" ->
            [variant |-> "Ends", timestamp |-> FfiTimestamp(t.timestamp)]
      [] t.variant = "LiveEventStatus" ->
            [variant |-> "LiveEventStatus",
             status |-> LiveEventStatusFrom(t.s)]
      [] t.variant = "CurrentParticipants" ->
            [variant |-> "CurrentParticipants", num |-> t.num]
      [] t.variant = "TotalParticipants" ->
            [variant |-> "TotalParticipants", num |-> t.num]
      [] t.variant = "AbsoluteURL" ->
            [variant |-> "AbsoluteURL", url |-> UncheckedUrlToString(t.url)]
      [] t.variant = "Method" ->
            [variant |-> "Method", method |-> HttpMethodFrom(t.method)]
      [] t.variant = "Payload" ->
            [variant |-> "Payload", hash |-> Sha256HashToString(t.p)]
      [] t.variant = "Anon" ->
            [variant |-> "Anon", msg |-> t.msg]
      [] t.variant = "Proxy" ->
            [variant |-> "Proxy", id |-> t.id,
             protocol |-> ProtocolFrom(t.protocol)]
      [] t.variant = "Emoji" ->
            [variant |-> "Emoji", shortcode |-> t.shortcode,
             url |-> UncheckedUrlToString(t.url)]
      [] t.variant = "Request" ->
            [variant |-> "Request", event |-> Event(t.event)]
      [] t.variant = "DataVendingMachineStatus" ->
            [variant |-> "DataVendingMachineStatus",
             status |-> DataVendingMachineStatusFrom(t.status),
             extra_info |-> t.extra_info]


\* Tag::from_enum(e): the tag of the conversion, or the error of the conversion
Tag_from_enum(e) ==
    IF TagEnumInto(e).ok THEN Ok(FfiTag(TagEnumInto(e).val))
    ELSE Err(TagEnumInto(e).err)

\* Tag::as_enum(&self)
Tag_as_enum(self) == TagEnumFrom(self.inner)

----------------------------------------------------------------------------
(* The core parser and serializer of a tag, tag::Tag::try_from(Vec<String>), *)
(* as_vec and kind, for the names e, p, t, expiration and nonce and for the *)
(* names that are not tag names: a fixed positional mapping and its inverse *)

\* the text `root`
Str_root == <<114, 111, 111, 116>>

\* the text `reply`
Str_reply == <<114, 101, 112, 108, 121>>

\* the text `t`
Str_t == <<116>>

\* the text `nonce`
Str_nonce == <<110, 111, 110, 99, 101>>

\* the text `7`
Str_7 == <<55>>

\* the text `007`
Str_007 == <<48, 48, 55>>

\* the text `20`
Str_20 == <<50, 48>>

\* the text `kind=1`
Str_kind1 == <<107, 105, 110, 100, 61, 49>>

\* the text `https://a.b`
Str_https_ab == <<104, 116, 116, 112, 115, 58, 47, 47, 97, 46, 98>>

\* the text `https://a.b/c`
Str_https_ab_c == <<104, 116, 116, 112, 115, 58, 47, 47, 97, 46, 98, 47, 99>>

\* the text `wss://r.x/`
Str_wss_r == <<119, 115, 115, 58, 47, 47, 114, 46, 120, 47>>

\* the names of the tags whose shape is written here, with their kinds
KnownNames ==
    { <<Str_e, "E">>, <<Str_p, "P">>, <<Str_t, "T">>,
      <<Str_expiration, "Expiration">>, <<Str_nonce, "Nonce">> }

\* TagKind::from(&str): the kind of a tag name, Custom for any other text
TagKindFromStr(str) ==
    IF \E a \in KnownNames : a[1] = str
    THEN Unit((CHOOSE a \in KnownNames : a[1] = str)[2])
    ELSE TagKindCustom(str)

\* TagKind::to_string
TagKindToString(kind) ==
    IF kind.tag = "Custom" THEN kind.custom
    ELSE (CHOOSE a \in KnownNames : a[2] = kind.tag)[1]

\* Marker::from(&str)
MarkerFromStr(str) ==
    IF str = Str_root THEN Unit("Root")
    ELSE IF str = Str_reply THEN Unit("Reply")
    ELSE MarkerCustom(str)

\* Marker::to_string
MarkerToString(m) ==
    IF m.tag = "Root" THEN Str_root
    ELSE IF m.tag = "Reply" THEN Str_reply
    ELSE m.custom

\* the optional field at position i: absent past the end and when empty
OptionalField(strs, i) ==
    IF Len(strs) >= i /\ strs[i] # <<>> THEN Some(strs[i]) ELSE None

RECURSIVE WriteOptionals(_)
\* optional fields as written: none for the omitted ones at the end, the
\* empty string for an omitted one before a present one
WriteOptionals(opts) ==
    IF opts = <<>> THEN <<>>
    ELSE IF opts[Len(opts)] = None THEN WriteOptionals(SubSeq(opts, 1, Len(opts) - 1))
    ELSE [i \in 1..Len(opts) |-> IF opts[i] = None THEN <<>> ELSE opts[i][1]]

\* a text of decimal digits only
IsDecimal(str) == str # <<>> /\ \A i \in 1..Len(str) : IsDigit(str[i])

\* the hexadecimal text of 32 bytes
IsHex32(str) == FromHex(str).ok /\ Len(FromHex(str).val) = KeyLen

\* tag::Tag::Generic(kind, data)
TagGeneric(kind, strs) == [variant |-> "Generic", kind |-> kind, data |-> strs]

\* tag::Tag::try_from(Vec<String>)
TagTryFromVec(strs) ==
    IF strs = <<>> THEN Err("InvalidShape")
    ELSE LET kind == TagKindFromStr(strs[1])
             n == Len(strs)
         IN  IF n = 1 \/ kind.tag = "Custom" THEN Ok(TagGeneric(kind, Tail(strs)))
             ELSE CASE kind.tag = "E" ->
                        IF n <= 4 /\ IsHex32(strs[2])
                        THEN Ok([variant |-> "Event", event_id |-> FromHex(strs[2]).val,
                                 relay_url |-> MapOption(OptionalField(strs, 3),
                                                         UncheckedUrlFrom),
                                 marker |-> MapOption(OptionalField(strs, 4),
                                                      MarkerFromStr)])
                        ELSE Err("InvalidShape")
                    [] kind.tag = "P" ->
                        IF n <= 4 /\ IsHex32(strs[2])
                        THEN Ok([variant |-> "PublicKey",
                                 public_key |-> FromHex(strs[2]).val,
                                 relay_url |-> MapOption(OptionalField(strs, 3),
                                                         UncheckedUrlFrom),
                                 alias |-> OptionalField(strs, 4)])
                        ELSE Err("InvalidShape")
                    [] kind.tag = "T" ->
                        IF n = 2 THEN Ok(TagHashtag(strs[2])) ELSE Err("InvalidShape")
                    [] kind.tag = "Expiration" ->
                        IF n = 2 /\ IsDecimal(strs[2])
                        THEN Ok(TagExpiration(DecimalValue(strs[2])))
                        ELSE Err("InvalidShape")
                    [] kind.tag = "Nonce" ->
                        IF n = 3 /\ IsDecimal(strs[2]) /\ IsDecimal(strs[3])
                              /\ DecimalValue(strs[3]) <= U8Max
                        THEN Ok([variant |-> "POW", nonce |-> DecimalValue(strs[2]),
                                 difficulty |-> DecimalValue(strs[3])])
                        ELSE Err("InvalidShape")

\* tag::Tag::as_vec
TagAsVec(t) ==
    CASE t.variant = "Generic" -> <<TagKindToString(t.kind)>> \o t.data
      [] t.variant = "Event" ->
            <<Str_e, ToHex(t.event_id)>>
                \o WriteOptionals(<<MapOption(t.relay_url, UncheckedUrlToString),
                                    MapOption(t.marker, MarkerToString)>>)
      [] t.variant = "PublicKey" ->
            <<Str_p, ToHex(t.public_key)>>
                \o WriteOptionals(<<MapOption(t.relay_url, UncheckedUrlToString),
                                    t.alias>>)
      [] t.variant = "Hashtag" -> <<Str_t, t.hashtag>>
      [] t.variant = "Expiration" -> <<Str_expiration, U128ToString(t.timestamp)>>
      [] t.variant = "POW" ->
            <<Str_nonce, U128ToString(t.nonce), U128ToString(t.difficulty)>>

\* tag::Tag::kind
TagKindOf(t) ==
    CASE t.variant = "Generic" -> t.kind
      [] t.variant = "Event" -> Unit("E")
      [] t.variant = "PublicKey" -> Unit("P")
      [] t.variant = "Hashtag" -> Unit("T")
      [] t.variant = "Expiration" -> Unit("Expiration")
      [] t.variant = "POW" -> Unit("Nonce")

\* Tag::parse(data): the tag of the core parser, or its error
Tag_parse(strs) ==
    IF TagTryFromVec(strs).ok THEN Ok(FfiTag(TagTryFromVec(strs).val))
    ELSE Err(TagTryFromVec(strs).err)

\* the serializer without the name of the tag
Tag_as_vec_WithoutName(self) == Tail(TagAsVec(self.inner))

\* Tag::as_vec(&self)
Tag_as_vec(self) == TagAsVec(self.inner)

\* Tag::kind(&self)
Tag_kind(self) == TagKindFrom(TagKindOf(self.inner))

----------------------------------------------------------------------------
(* The holder of a Tag makes it from an enum value, from a core tag or from *)
(* strings, and reads it back *)

\* the hexadecimal text of a signature
Str_sig == ToHex(PK1 \o PK2)

\* the hexadecimal text of a digest
Str_hash == ToHex(ID1)

\* relay_url: Option<String>
OptUrls == {None, Some(Str_wss_r)}

\* values of TagEnum, every variant with every kind of payload it takes
TagEnums ==
    {[variant |-> "Unknown", kind |-> k, data |-> d] :
        k \in {TagKindKnown("P"), TagKindKnown("RelayUrl"), TagKindUnknown(Str_abc)},
        d \in {<<>>, <<Str_abc, Str_def>>}}
    \cup {[variant |-> "Event", event_id |-> FfiEventId(ID1), relay_url |-> u, marker |-> m] :
            u \in OptUrls,
            m \in {None, Some(Unit("Root")), Some(MarkerCustom(Str_abc))}}
    \cup {[variant |-> "PublicKey", public_key |-> FfiPublicKey(PK1), relay_url |-> u,
           alias |-> a] : u \in OptUrls, a \in {None, Some(Str_abc)}}
    \cup {[variant |-> "EventReport", event_id |-> FfiEventId(ID1), report |-> Unit(r)] :
            r \in {"Nudity", "Spam"}}
    \cup {[variant |-> "PubKeyReport", public_key |-> FfiPublicKey(PK2),
           report |-> Unit("Illegal")]}
    \cup {[variant |-> "PubKeyLiveEvent", public_key |-> FfiPublicKey(PK1),
           relay_url |-> u, marker |-> Unit("Host"), proof |-> p] :
            u \in OptUrls, p \in {None, Some(Str_sig), Some(Str_abc), Some(Str_hash)}}
    \cup {[variant |-> "Reference", reference |-> Str_abc]}
    \cup {[variant |-> "RelayMetadata", relay_url |-> Str_wss_r, rw |-> rw] :
            rw \in {None, Some(Unit("Read")), Some(Unit("Write"))}}
    \cup {[variant |-> "Hashtag", hashtag |-> Str_abc]}
    \cup {[variant |-> "Geohash", geohash |-> Str_abc]}
    \cup {[variant |-> "Identifier", identifier |-> s] : s \in {<<>>, Str_abc}}
    \cup {[variant |-> "ExternalIdentity",
           identity |-> Identity(Unit("GitHub"), Str_abc, Str_def)]}
    \cup {[variant |-> "A", kind |-> 30000, public_key |-> FfiPublicKey(PK1),
           identifier |-> Str_abc, relay_url |-> u] : u \in OptUrls}
    \cup {[variant |-> "RelayUrl", relay_url |-> Str_wss_r]}
    \cup {[variant |-> "POW", nonce |-> s, difficulty |-> 20] :
            s \in {Str_7, Str_007, Str_abc, <<>>}}
    \cup {[variant |-> "Delegation", delegator |-> FfiPublicKey(PK1), conditions |-> c,
           sig |-> s] : c \in {<<>>, Str_kind1, Str_abc}, s \in {Str_sig, Str_abc}}
    \cup {[variant |-> "ContentWarning", reason |-> r] : r \in {None, Some(Str_abc)}}
    \cup {[variant |-> v, timestamp |-> FfiTimestamp(2)] :
            v \in {"Expiration", "PublishedAt", "Starts", "Ends"}}
    \cup {[variant |-> "Subject", subject |-> Str_abc],
          [variant |-> "Challenge", challenge |-> Str_abc],
          [variant |-> "Title", title |-> Str_abc],
          [variant |-> "Summary", summary |-> Str_abc],
          [variant |-> "Description", desc |-> Str_abc],
          [variant |-> "Bolt11", bolt11 |-> Str_abc],
          [variant |-> "Preimage", preimage |-> Str_abc],
          [variant |-> "Lnurl", lnurl |-> Str_abc],
          [variant |-> "Name", name |-> Str_abc],
          [variant |-> "MimeType", mime |-> Str_abc],
          [variant |-> "Aes256Gcm", key |-> Str_abc, iv |-> Str_def],
          [variant |-> "Size", size |-> 3],
          [variant |-> "Dim", dimensions |-> [width |-> 2, height |-> 3]],
          [variant |-> "Magnet", uri |-> Str_abc],
          [variant |-> "Blurhash", blurhash |-> Str_abc],
          [variant |-> "LiveEventStatus", status |-> Unit("Live")],
          [variant |-> "Method", method |-> Unit("Post")],
          [variant |-> "Anon", msg |-> None],
          [variant |-> "Anon", msg |-> Some(Str_abc)],
          [variant |-> "Proxy", id |-> Str_abc, protocol |-> Unit("ActivityPub")],
          [variant |-> "Emoji", shortcode |-> Str_abc, url |-> Str_https_ab_c],
          [variant |-> "Request", event |-> Event(Signed(PK1, 1, 1, <<>>, Str_abc))],
          [variant |-> "DataVendingMachineStatus", status |-> Unit("Success"),
           extra_info |-> None]}
    \cup {[variant |-> v, url |-> Str_https_ab_c, dimensions |-> d] :
            v \in {"Image", "Thumb"}, d \in {None, Some([width |-> 2, height |-> 3])}}
    \cup {[variant |-> "Relays", urls |-> us] : us \in {<<>>, <<Str_wss_r, Str_abc>>}}
    \cup {[variant |-> "Amount", millisats |-> 3, bolt11 |-> b] :
            b \in {None, Some(Str_abc)}}
    \cup {[variant |-> "Url", url |-> s] :
            s \in {Str_https_ab_c, Str_https_ab, Str_abc, <<>>}}
    \cup {[variant |-> v, hash |-> s] :
            v \in {"Sha256", "Payload"}, s \in {Str_hash, Str_sig, Str_abc}}
    \cup {[variant |-> v, url |-> Str_wss_r] :
            v \in {"Streaming", "Recording", "AbsoluteURL"}}
    \cup {[variant |-> v, num |-> n] :
            v \in {"CurrentParticipants", "TotalParticipants"}, n \in {0, 5}}

\* core tags: the ones the enum values above make, and the count of all
\* participants, which no enum value makes
CoreTags ==
    {TagEnumInto(e).val : e \in {x \in TagEnums : TagEnumInto(x).ok}}
        \cup {[variant |-> "TotalParticipants", num |-> n] : n \in {0, 5}}

\* strings handed to Tag::parse: well-shaped and ill-shaped tags of the names
\* written above, and names that are no tag names
ParseInputs ==
    { <<>>, <<Str_e>>, <<Str_abc>>, <<<<>>>>, <<Str_abc, Str_def>>, <<Str_abc, <<>>, Str_def>>,
      <<Str_x, Str_hash, <<>>>>,
      <<Str_e, Str_hash>>, <<Str_e, Str_hash, Str_wss_r>>, <<Str_e, Str_hash, <<>>>>,
      <<Str_e, Str_hash, <<>>, Str_root>>, <<Str_e, Str_hash, Str_wss_r, Str_reply>>,
      <<Str_e, Str_hash, Str_wss_r, Str_abc>>, <<Str_e, Str_hash, <<>>, <<>>>>,
      <<Str_e, Str_abc>>, <<Str_e, Str_sig>>,
      <<Str_p, ToHex(PK1)>>, <<Str_p, ToHex(PK1), Str_wss_r>>,
      <<Str_p, ToHex(PK1), <<>>, Str_abc>>, <<Str_p, ToHex(PK2), Str_wss_r, Str_abc>>,
      <<Str_p, Str_abc>>,
      <<Str_t, Str_abc>>, <<Str_t, <<>>>>, <<Str_t, Str_abc, Str_def>>,
      <<Str_expiration, Str_7>>, <<Str_expiration, Str_007>>, <<Str_expiration, Str_abc>>,
      <<Str_nonce, Str_007, Str_20>>, <<Str_nonce, Str_7, Str_abc>>, <<Str_nonce, Str_7>> }

InitTag ==
    /\ pc = "start"
    /\ CodecIdle
    /\ IndexIdle
    /\ EventIdle
    /\ LoopIdle
    /\ JsonIdle
    /\ TagIdle

\* Tag::from_enum(e)
FromEnum(e) ==
    /\ pc = "start"
    /\ pc' = "from_enum"
    /\ tagenum' = e
    /\ made' = Tag_from_enum(e)
    /\ UNCHANGED <<fields, prev, shown, codecVars, indexVars, eventVars, loopVars, jsonVars>>

\* impl From<tag::Tag> for Tag
FromTag(t) ==
    /\ pc = "start"
    /\ pc' = "from"
    /\ made' = Ok(FfiTag(t))
    /\ UNCHANGED <<fields, tagenum, prev, shown, codecVars, indexVars, eventVars, loopVars,
                   jsonVars>>

\* Tag::parse(data)
Parse(strs) ==
    /\ pc = "start"
    /\ pc' = "parse"
    /\ fields' = strs
    /\ made' = Tag_parse(strs)
    /\ UNCHANGED <<tagenum, prev, shown, codecVars, indexVars, eventVars, loopVars, jsonVars>>

\* as_enum(&self) of the tag that was made
AsEnum ==
    /\ pc \in {"from_enum", "from"}
    /\ made.ok
    /\ pc' = IF pc = "from" THEN "from.as_enum" ELSE "from_enum.as_enum"
    /\ shown' = Tag_as_enum(made.val)
    /\ UNCHANGED <<fields, tagenum, made, prev, codecVars, indexVars, eventVars, loopVars,
                   jsonVars>>

\* Tag::from_enum of the enum value that as_enum returned
FromEnumAgain ==
    /\ pc = "from.as_enum"
    /\ pc' = "from.as_enum.from_enum"
    /\ prev' = made
    /\ made' = Tag_from_enum(shown)
    /\ UNCHANGED <<fields, tagenum, shown, codecVars, indexVars, eventVars, loopVars,
                   jsonVars>>

\* as_vec(&self) of the tag that was parsed
AsVec ==
    /\ pc = "parse"
    /\ made.ok
    /\ pc' = "parse.as_vec"
    /\ shown' = Tag_as_vec(made.val)
    /\ UNCHANGED <<fields, tagenum, made, prev, codecVars, indexVars, eventVars, loopVars,
                   jsonVars>>

\* Tag::parse of the strings that as_vec returned
ParseAgain ==
    /\ pc = "parse.as_vec"
    /\ pc' = "parse.as_vec.parse"
    /\ prev' = made
    /\ made' = Tag_parse(shown)
    /\ UNCHANGED <<fields, tagenum, shown, codecVars, indexVars, eventVars, loopVars,
                   jsonVars>>

\* kind(&self) of the tag that was parsed
KindOf ==
    /\ pc = "parse"
    /\ made.ok
    /\ pc' = "parse.kind"
    /\ shown' = Tag_kind(made.val)
    /\ UNCHANGED <<fields, tagenum, made, prev, codecVars, indexVars, eventVars, loopVars,
                   jsonVars>>

NextTag ==
    \/ \E e \in TagEnums : FromEnum(e)
    \/ \E t \in CoreTags : FromTag(t)
    \/ \E strs \in ParseInputs : Parse(strs)
    \/ AsEnum
    \/ FromEnumAgain
    \/ AsVec
    \/ ParseAgain
    \/ KindOf

SpecTag == InitTag /\ [][NextTag]_vars

----------------------------------------------------------------------------
(* Statements about the Tag object, checked under SpecTag *)

\* the variants of TagEnum with a sub-field that from_enum parses
ParsedVariants == {"PubKeyLiveEvent", "Delegation", "POW", "Sha256", "Payload", "Url"}

\* a text sub-field of the enum value e does not parse to its typed form
BadSubField(e) ==
    CASE e.variant = "PubKeyLiveEvent" ->
            e.proof # None /\ ~SignatureFromStr(e.proof[1]).ok
      [] e.variant = "Delegation" ->
            ~ConditionsFromStr(e.conditions).ok \/ ~SignatureFromStr(e.sig).ok
      [] e.variant = "POW" -> ~U128Parse(e.nonce).ok
      [] e.variant \in {"Sha256", "Payload"} -> ~Sha256HashFromStr(e.hash).ok
      [] e.variant = "Url" -> ~UrlParse(e.url).ok
      [] OTHER -> FALSE

\* C22: the conversions between TagEnum and the core tag keep the variant
\* and the payload: as_enum of the tag made by from_enum(e) is e, a core tag
\* converted to TagEnum and back is the same tag, and TotalParticipants stays
\* TotalParticipants.
C22_EnumRoundTrip ==
    /\ pc = "from_enum.as_enum" =>
          /\ shown.variant = tagenum.variant
          /\ shown = tagenum
          /\ tagenum.variant = "TotalParticipants" =>
                shown.variant # "CurrentParticipants"
    /\ pc = "from.as_enum.from_enum" =>
          /\ made.ok
          /\ made = prev

\* C24: Tag::from_enum returns a complete tag or an error: it fails, with no
\* Tag made, when a text sub-field of the enum value does not parse to its
\* typed form, and it succeeds for every variant without a parsed sub-field.
C24_FromEnumAllOrNothing ==
    pc = "from_enum" =>
        /\ made.ok \/ made = Err("Generic")
        /\ made.ok => made.val.inner \in CoreTags
        /\ BadSubField(tagenum) => ~made.ok
        /\ tagenum.variant \notin ParsedVariants => made.ok
        /\ (tagenum.variant = "PubKeyLiveEvent" /\ made.ok) =>
              \/ tagenum.proof = None /\ made.val.inner.proof = None
              \/ /\ tagenum.proof # None
                 /\ made.val.inner.proof = Some(SignatureFromStr(tagenum.proof[1]).val)

\* from_enum was given a live-event key whose proof is no signature, and failed
C24_Witness ==
    /\ pc = "from_enum"
    /\ tagenum.variant = "PubKeyLiveEvent"
    /\ tagenum.proof = Some(Str_abc)
    /\ BadSubField(tagenum)
    /\ made = Err("Generic")

\* the first string is the name of no tag
UnknownName(strs) == strs # <<>> /\ \A a \in KnownNames : a[1] # strs[1]

====
